---- MODULE Spec2Model ----
(***************************************************************************)
(* Model of the paperwork generation tools: the identifier allocator       *)
(* (tools/category_utils.py), the document parser (tools/render_ftl.py),   *)
(* the category resolver and renderers (tools/render_starlight.py) and the *)
(* bundle verifier (tools/verify_bundle.py).                               *)
(*                                                                         *)
(* Python strings are TLA+ strings; TLC evaluates Len, SubSeq, Head, Tail  *)
(* and \o on them, so every text transformation is computed character by   *)
(* character as the code computes it.                                      *)
(***************************************************************************)
EXTENDS Integers, Sequences, FiniteSets, TLC

VARIABLES
    existing_keys,   \* build_category_infos: issued slug names
    key_counters,    \* build_category_infos: retry counter per slug base
    existing_ids,    \* build_category_infos: issued PascalCase ids
    id_counters,     \* build_category_infos: retry counter per id base
    initial_keys,    \* the slug issued-set the call sequence started from
    initial_ids,     \* the id issued-set the call sequence started from
    returned_keys,   \* names returned by allocate_slug, in call order
    returned_ids,    \* names returned by allocate_id, in call order
    last_call,       \* the most recent allocator call and what it observed
    pc,              \* allocate_slug / allocate_id: where the running call is
    loop_counter,    \* allocate_slug / allocate_id: the local counter of the loop
    index,           \* alphabetic_suffix: the argument of the latest call
    suffix,          \* alphabetic_suffix: its return value
    prev_suffix,     \* the return value for the argument before it
    seen_suffixes,   \* the return values for all smaller arguments
    tree,            \* the files below the document root
    outcome,         \* what discover_documents(root) returned or raised
    category_config, \* the content of the --category-config file
    dist,            \* the generated files: path to text
    category_infos,  \* what build_category_infos returned in the latest run
    changed_files,   \* the destinations the latest generation command wrote
    exit_code,       \* the exit status of the latest generation command
    errors,          \* what verify_bundle returned or raised
    edits            \* the changes made by hand to the generated files

allocVars == <<existing_keys, key_counters, existing_ids, id_counters,
               initial_keys, initial_ids, returned_keys, returned_ids, last_call,
               pc, loop_counter>>
suffixVars == <<index, suffix, prev_suffix, seen_suffixes>>
discoverVars == <<tree, outcome>>
pipelineVars == <<category_config, dist, category_infos, changed_files, exit_code, errors,
                  edits>>

-----------------------------------------------------------------------------
(* Bounds of the model. *)

MaxCalls == 3
MaxIndex == 710
MaxFiles == 2
MaxEdits == 2
MaxCounter == 8

-----------------------------------------------------------------------------
(* Characters and the str methods the tools use. *)

LowerChars == "abcdefghijklmnopqrstuvwxyz"
UpperChars == "ABCDEFGHIJKLMNOPQRSTUVWXYZ"
DigitChars == "0123456789"
\* The ASCII characters from 35 (#) to 91 ([), in code point order.
AsciiLow == "#$%&'()*+,-./0123456789:;<=>?@ABCDEFGHIJKLMNOPQRSTUVWXYZ["

At(s, i) == SubSeq(s, i, i)
From(s, i) == SubSeq(s, i, Len(s))

IndexIn(c, s) ==
    IF \E i \in 1..Len(s) : At(s, i) = c
    THEN CHOOSE i \in 1..Len(s) : At(s, i) = c
    ELSE 0

Chars(s) == { At(s, i) : i \in 1..Len(s) }

LowerSet == Chars(LowerChars)
UpperSet == Chars(UpperChars)
DigitSet == Chars(DigitChars)

IsLower(c) == c \in LowerSet
IsUpper(c) == c \in UpperSet
IsDigit(c) == c \in DigitSet
IsAlnum(c) == IsLower(c) \/ IsUpper(c) \/ IsDigit(c)
IsSpace(c) == c \in {" ", "\t", "\n", "\r", "\f"}

\* ord(c), tabulated for the ASCII characters the model's texts use
CodePoints ==
    [c \in Chars(AsciiLow) \cup LowerSet \cup {"\t", "\n", "\f", "\r", " ", "!", "]", "_"} |->
        CASE c = "\t" -> 9
          [] c = "\n" -> 10
          [] c = "\f" -> 12
          [] c = "\r" -> 13
          [] c = " " -> 32
          [] c = "!" -> 33
          [] c = "]" -> 93
          [] c = "_" -> 95
          [] c \in LowerSet -> 96 + IndexIn(c, LowerChars)
          [] OTHER -> 34 + IndexIn(c, AsciiLow)]

Ord(c) == IF c \in DOMAIN CodePoints THEN CodePoints[c] ELSE 127

LowerOf == [c \in UpperSet |-> At(LowerChars, IndexIn(c, UpperChars))]
UpperOf == [c \in LowerSet |-> At(UpperChars, IndexIn(c, LowerChars))]

LowerChar(c) == IF IsUpper(c) THEN LowerOf[c] ELSE c
UpperChar(c) == IF IsLower(c) THEN UpperOf[c] ELSE c

RECURSIVE lower(_)
lower(s) == IF s = "" THEN "" ELSE LowerChar(Head(s)) \o lower(Tail(s))

StartsWith(s, p) == Len(s) >= Len(p) /\ SubSeq(s, 1, Len(p)) = p
EndsWith(s, p) == Len(s) >= Len(p) /\ SubSeq(s, Len(s) - Len(p) + 1, Len(s)) = p

\* str < str: code point by code point, a proper prefix first.
RECURSIVE StrLess(_, _)
StrLess(a, b) ==
    IF b = "" THEN FALSE
    ELSE IF a = "" THEN TRUE
    ELSE IF Head(a) = Head(b) THEN StrLess(Tail(a), Tail(b))
    ELSE Ord(Head(a)) < Ord(Head(b))

RECURSIVE lstrip(_)
lstrip(s) == IF s # "" /\ IsSpace(Head(s)) THEN lstrip(Tail(s)) ELSE s

RECURSIVE rstrip(_)
rstrip(s) ==
    IF s # "" /\ IsSpace(At(s, Len(s))) THEN rstrip(SubSeq(s, 1, Len(s) - 1)) ELSE s

strip(s) == rstrip(lstrip(s))

\* str.strip("-")
RECURSIVE strip_hyphens(_)
strip_hyphens(s) ==
    IF s # "" /\ Head(s) = "-" THEN strip_hyphens(Tail(s))
    ELSE IF s # "" /\ At(s, Len(s)) = "-" THEN strip_hyphens(SubSeq(s, 1, Len(s) - 1))
    ELSE s

\* a or b or c or d, on strings
FirstNonEmpty(a, b, c, d) ==
    IF a # "" THEN a ELSE IF b # "" THEN b ELSE IF c # "" THEN c ELSE d

\* dict.get, dict[k] = v and dict.setdefault on a dict held as a function.
EmptyDict == <<>>
DictGet(d, k, default) == IF k \in DOMAIN d THEN d[k] ELSE default
DictSet(d, k, v) == [x \in (DOMAIN d) \cup {k} |-> IF x = k THEN v ELSE d[x]]
DictSetDefault(d, k, v) == IF k \in DOMAIN d THEN d ELSE DictSet(d, k, v)

-----------------------------------------------------------------------------
(* tools/category_utils.py *)

\* The while loop of alphabetic_suffix: one iteration per call.
RECURSIVE suffix_loop(_, _)
suffix_loop(value, result) ==
    LET quotient == value \div 26
        remainder == value % 26
        next_result == At(UpperChars, remainder + 1) \o result
    IN  IF quotient = 0 THEN next_result ELSE suffix_loop(quotient - 1, next_result)

\* The mutant: positional base 26 (the quotient is not decremented).
RECURSIVE suffix_loop_positional(_, _)
suffix_loop_positional(value, result) ==
    LET quotient == value \div 26
        remainder == value % 26
        next_result == At(UpperChars, remainder + 1) \o result
    IN  IF quotient = 0 THEN next_result ELSE suffix_loop_positional(quotient, next_result)

alphabetic_suffix_positional(i) ==
    IF i < 0 THEN "ValueError" ELSE suffix_loop_positional(i, "")

alphabetic_suffix(i) ==
    IF i < 0 THEN "ValueError" ELSE suffix_loop(i, "")

ensure_document_slug(slug) ==
    LET stripped == strip_hyphens(slug)
        cleaned == IF stripped = "" THEN "document" ELSE stripped
    IN  IF StartsWith(cleaned, "document-") THEN cleaned ELSE "document-" \o cleaned

ensure_document_id(base) ==
    LET cleaned == IF base = "" THEN "Document" ELSE base
    IN  IF StartsWith(lower(cleaned), "document") THEN cleaned ELSE "Document" \o cleaned

\* A candidate that does not change with the counter.
slug_candidate_fixed(base, counter) == base \o "-a"

slug_candidate(base, counter) == base \o "-" \o lower(alphabetic_suffix(counter))
id_candidate(base, counter) == base \o alphabetic_suffix(counter)

\* The collision loop of allocate_slug: the counter of the accepted candidate.
RECURSIVE slug_loop(_, _, _)
slug_loop(base, counter, existing) ==
    IF slug_candidate(base, counter) \notin existing
    THEN counter
    ELSE slug_loop(base, counter + 1, existing)

RECURSIVE id_loop(_, _, _)
id_loop(base, counter, existing) ==
    IF id_candidate(base, counter) \notin existing
    THEN counter
    ELSE id_loop(base, counter + 1, existing)

\* An allocator call returns the name and leaves the two caller-scoped
\* structures changed; first and accepted are the counters of the first
\* candidate tried and of the one accepted (-1 when the base itself was free).
AllocResult(name, existing, counters, first, accepted) ==
    [name |-> name, existing |-> existing, counters |-> counters,
     first |-> first, accepted |-> accepted]

\* The mutant: the accepted candidate is not registered in the issued-set.
allocate_slug_unregistered(base, existing, counters) ==
    LET key == IF base = "" THEN "document" ELSE base
    IN  IF key \notin existing
        THEN AllocResult(key, existing \cup {key}, DictSetDefault(counters, base, 0), -1, -1)
        ELSE LET first == DictGet(counters, base, 0)
                 accepted == slug_loop(base, first, existing)
             IN  AllocResult(slug_candidate(base, accepted), existing,
                             DictSet(counters, base, accepted + 1), first, accepted)

\* The mutant: the advanced counter is not stored back.
allocate_slug_forgetful(base, existing, counters) ==
    LET key == IF base = "" THEN "document" ELSE base
    IN  IF key \notin existing
        THEN AllocResult(key, existing \cup {key}, DictSetDefault(counters, base, 0), -1, -1)
        ELSE LET first == DictGet(counters, base, 0)
                 accepted == slug_loop(base, first, existing)
             IN  AllocResult(slug_candidate(base, accepted),
                             existing \cup {slug_candidate(base, accepted)},
                             DictSetDefault(counters, base, 0), first, accepted)

allocate_slug(base, existing, counters) ==
    LET key == IF base = "" THEN "document" ELSE base
    IN  IF key \notin existing
        THEN AllocResult(key, existing \cup {key}, DictSetDefault(counters, base, 0), -1, -1)
        ELSE LET first == DictGet(counters, base, 0)
                 accepted == slug_loop(base, first, existing)
             IN  AllocResult(slug_candidate(base, accepted),
                             existing \cup {slug_candidate(base, accepted)},
                             DictSet(counters, base, accepted + 1), first, accepted)

\* The mutant: the accepted identifier is not registered in the issued-set.
allocate_id_unregistered(base, existing, counters) ==
    LET identifier == IF base = "" THEN "Document" ELSE base
    IN  IF identifier \notin existing
        THEN AllocResult(identifier, existing, DictSetDefault(counters, base, 0), -1, -1)
        ELSE LET first == DictGet(counters, base, 0)
                 accepted == id_loop(base, first, existing)
             IN  AllocResult(id_candidate(base, accepted), existing,
                             DictSet(counters, base, accepted + 1), first, accepted)

allocate_id(base, existing, counters) ==
    LET identifier == IF base = "" THEN "Document" ELSE base
    IN  IF identifier \notin existing
        THEN AllocResult(identifier, existing \cup {identifier},
                         DictSetDefault(counters, base, 0), -1, -1)
        ELSE LET first == DictGet(counters, base, 0)
                 accepted == id_loop(base, first, existing)
             IN  AllocResult(id_candidate(base, accepted),
                             existing \cup {id_candidate(base, accepted)},
                             DictSet(counters, base, accepted + 1), first, accepted)

-----------------------------------------------------------------------------
(* tools/render_ftl.py: text normalisation. *)

\* The end of a match of \s*\([^()]*\) that starts at position i, or 0.
RECURSIVE skip_spaces(_, _)
skip_spaces(s, i) ==
    IF i <= Len(s) /\ IsSpace(At(s, i)) THEN skip_spaces(s, i + 1) ELSE i

RECURSIVE skip_non_parens(_, _)
skip_non_parens(s, i) ==
    IF i <= Len(s) /\ At(s, i) \notin {"(", ")"} THEN skip_non_parens(s, i + 1) ELSE i

parenthetical_end(s, i) ==
    LET open == skip_spaces(s, i)
        close == skip_non_parens(s, open + 1)
    IN  IF open <= Len(s) /\ At(s, open) = "(" /\ close <= Len(s) /\ At(s, close) = ")"
        THEN close
        ELSE 0

\* re.sub(r"\s*\([^()]*\)", "", text), scanning from position i.
RECURSIVE remove_parentheticals(_, _)
remove_parentheticals(s, i) ==
    IF i > Len(s) THEN ""
    ELSE IF parenthetical_end(s, i) > 0
         THEN remove_parentheticals(s, parenthetical_end(s, i) + 1)
         ELSE At(s, i) \o remove_parentheticals(s, i + 1)

\* re.sub(r"\s+", " ", text)
RECURSIVE collapse_whitespace(_)
collapse_whitespace(s) ==
    IF s = "" THEN ""
    ELSE IF IsSpace(Head(s)) THEN " " \o collapse_whitespace(lstrip(s))
    ELSE Head(s) \o collapse_whitespace(Tail(s))

strip_parenthetical(text) ==
    strip(collapse_whitespace(remove_parentheticals(text, 1)))

\* str.replace(" ", "-")
RECURSIVE spaces_to_hyphens(_)
spaces_to_hyphens(s) ==
    IF s = "" THEN ""
    ELSE (IF Head(s) = " " THEN "-" ELSE Head(s)) \o spaces_to_hyphens(Tail(s))

IsSlugChar(c) == IsLower(c) \/ IsDigit(c) \/ c = "-"

\* re.sub(r"[^a-z0-9-]+", "-", text)
RECURSIVE skip_non_slug(_)
skip_non_slug(s) == IF s # "" /\ ~IsSlugChar(Head(s)) THEN skip_non_slug(Tail(s)) ELSE s

RECURSIVE replace_non_slug(_)
replace_non_slug(s) ==
    IF s = "" THEN ""
    ELSE IF IsSlugChar(Head(s)) THEN Head(s) \o replace_non_slug(Tail(s))
    ELSE "-" \o replace_non_slug(skip_non_slug(s))

\* re.sub(r"\d+", "", text)
RECURSIVE remove_digits(_)
remove_digits(s) ==
    IF s = "" THEN ""
    ELSE IF IsDigit(Head(s)) THEN remove_digits(Tail(s))
    ELSE Head(s) \o remove_digits(Tail(s))

\* re.sub(r"-+", "-", text)
RECURSIVE collapse_hyphens(_)
collapse_hyphens(s) ==
    IF s = "" THEN ""
    ELSE IF Head(s) = "-" /\ Len(s) > 1 /\ At(s, 2) = "-" THEN collapse_hyphens(Tail(s))
    ELSE Head(s) \o collapse_hyphens(Tail(s))


normalise_component(component) ==
    strip_hyphens(collapse_hyphens(remove_digits(
        replace_non_slug(spaces_to_hyphens(lower(strip_parenthetical(component)))))))

RECURSIVE skip_digits(_)
skip_digits(s) == IF s # "" /\ IsDigit(Head(s)) THEN skip_digits(Tail(s)) ELSE s

\* re.sub(r"^\d+\s*[-.)]?\s*", "", text)
remove_ordinal_prefix(s) ==
    IF s = "" \/ ~IsDigit(Head(s)) THEN s
    ELSE LET after_spaces == lstrip(skip_digits(s))
             after_separator ==
                 IF after_spaces # "" /\ Head(after_spaces) \in {"-", ".", ")"}
                 THEN Tail(after_spaces)
                 ELSE after_spaces
         IN  lstrip(after_separator)

clean_category_label(component) ==
    LET result_or(result, cleaned) == IF result # "" THEN result ELSE cleaned
        without_prefix(cleaned) == result_or(strip(remove_ordinal_prefix(cleaned)), cleaned)
    IN  without_prefix(strip(strip_parenthetical(component)))

IsAllDigits(s) == s # "" /\ \A i \in 1..Len(s) : IsDigit(At(s, i))

\* One part of re.split(r"[^0-9a-zA-Z]+", value), as to_pascal_case appends it.
pascal_part(part) ==
    IF part = "" \/ IsAllDigits(part) THEN ""
    ELSE LET stripped == remove_digits(part)
         IN  IF stripped = "" THEN ""
             ELSE UpperChar(Head(stripped)) \o lower(Tail(stripped))

RECURSIVE pascal_parts(_, _)
pascal_parts(s, part) ==
    IF s = "" THEN pascal_part(part)
    ELSE IF IsAlnum(Head(s)) THEN pascal_parts(Tail(s), part \o Head(s))
    ELSE pascal_part(part) \o pascal_parts(Tail(s), "")

to_pascal_case(value) == pascal_parts(value, "")

\* "-".join(part for part in parts if part)
RECURSIVE join_non_empty(_)
join_non_empty(parts) ==
    IF parts = <<>> THEN ""
    ELSE LET rest == join_non_empty(Tail(parts))
         IN  IF Head(parts) = "" THEN rest
             ELSE IF rest = "" THEN Head(parts)
             ELSE Head(parts) \o "-" \o rest

\* PaperDocument.fluent_key
fluent_key(doc) ==
    LET joined == join_non_empty(Append(doc.category_keys, doc.slug_key))
    IN  "doc-text-printer-" \o (IF joined = "" THEN "paper" ELSE joined)

-----------------------------------------------------------------------------
(* tools/render_ftl.py: discovery and parsing.                             *)
(* A document tree is a set of files; a file is its path below the root    *)
(* (a sequence of path segments), whether read_text succeeds on it, and    *)
(* its text.                                                               *)

File(path, status, text) == [path |-> path, status |-> status, text |-> text]

FileName(path) == path[Len(path)]

\* Path.parent.parts of the path relative to the root
ParentParts(path) == SubSeq(path, 1, Len(path) - 1)

\* str.rfind(".")
RECURSIVE last_dot(_, _)
last_dot(name, i) ==
    IF i = 0 THEN 0 ELSE IF At(name, i) = "." THEN i ELSE last_dot(name, i - 1)

\* Path.stem: the final component without its last suffix
stem(name) ==
    LET dot == last_dot(name, Len(name))
    IN  IF 1 < dot /\ dot < Len(name) THEN SubSeq(name, 1, dot - 1) ELSE name

\* root.rglob("*.txt") and root.rglob("*.paper")
MatchesPattern(path) ==
    EndsWith(FileName(path), ".txt") \/ EndsWith(FileName(path), ".paper")


should_skip(path) ==
    \E i \in 1..Len(path) : StartsWith(path[i], "_")

\* Path.__lt__: the parts compared in turn, each as a str.
RECURSIVE PathLess(_, _)
PathLess(p, q) ==
    IF q = <<>> THEN FALSE
    ELSE IF p = <<>> THEN TRUE
    ELSE IF Head(p) = Head(q) THEN PathLess(Tail(p), Tail(q))
    ELSE StrLess(Head(p), Head(q))

\* sorted(candidates)
RECURSIVE sorted_paths(_)
sorted_paths(paths) ==
    IF paths = {} THEN <<>>
    ELSE LET first == CHOOSE p \in paths : \A q \in paths \ {p} : PathLess(p, q)
         IN  <<first>> \o sorted_paths(paths \ {first})

RECURSIVE without_skipped(_)
without_skipped(paths) ==
    IF paths = <<>> THEN <<>>
    ELSE IF should_skip(Head(paths)) THEN without_skipped(Tail(paths))
    ELSE <<Head(paths)>> \o without_skipped(Tail(paths))

\* The mutant: the candidates are not sorted (one arbitrary iteration order).
RECURSIVE any_order(_)
any_order(paths) ==
    IF paths = {} THEN <<>>
    ELSE LET first == CHOOSE p \in paths : \A q \in paths \ {p} : PathLess(q, p)
         IN  <<first>> \o any_order(paths \ {first})

list_document_paths_unsorted(root) ==
    without_skipped(any_order({f.path : f \in {g \in root : MatchesPattern(g.path)}}))

list_document_paths(root) ==
    without_skipped(sorted_paths({f.path : f \in {g \in root : MatchesPattern(g.path)}}))

\* raw_text.replace("\r\n", "\n").replace("\r", "\n")
RECURSIVE normalise_newlines(_)
normalise_newlines(s) ==
    IF s = "" THEN ""
    ELSE IF Head(s) = "\r" /\ Len(s) > 1 /\ At(s, 2) = "\n"
         THEN "\n" \o normalise_newlines(SubSeq(s, 3, Len(s)))
    ELSE IF Head(s) = "\r" THEN "\n" \o normalise_newlines(Tail(s))
    ELSE Head(s) \o normalise_newlines(Tail(s))

\* str.split("\n")
RECURSIVE split_lines(_, _)
split_lines(s, line) ==
    IF s = "" THEN <<line>>
    ELSE IF Head(s) = "\n" THEN <<line>> \o split_lines(Tail(s), "")
    ELSE split_lines(Tail(s), line \o Head(s))

\* tuple(filter(None, (clean_category_label(part) for part in parts)))
RECURSIVE display_categories_of(_)
display_categories_of(parts) ==
    IF parts = <<>> THEN <<>>
    ELSE LET kept(label) == IF label = "" THEN <<>> ELSE <<label>>
         IN  kept(clean_category_label(Head(parts))) \o display_categories_of(Tail(parts))

\* tuple(filter(None, (normalise_component(part) for part in display_categories)))
RECURSIVE category_keys_of(_)
category_keys_of(labels) ==
    IF labels = <<>> THEN <<>>
    ELSE LET kept(key) == IF key = "" THEN <<>> ELSE <<key>>
         IN  kept(normalise_component(Head(labels))) \o category_keys_of(Tail(labels))

slug_key_of(slug) ==
    FirstNonEmpty(normalise_component(slug), remove_digits(lower(slug)), "document", "")

\* What a call returns or raises.  PaperParseError is the one exception class
\* the module defines; the other types are the built-in exceptions that
\* read_text raises and parse_document does not catch.
Returned(value) == [raised |-> "none", reason |-> "", value |-> value]
Raised(type, reason) == [raised |-> type, reason |-> reason, value |-> <<>>]

\* read_text(encoding="utf-8") on a file of each status
ReadFailure(status) ==
    CASE status = "missing" -> "FileNotFoundError"
      [] status = "denied" -> "PermissionError"
      [] status = "undecodable" -> "UnicodeDecodeError"
      [] OTHER -> "none"

\* The mutant: a title line without the "#" marker is accepted.
parse_document_without_marker_check(file) ==
    LET lines == split_lines(normalise_newlines(file.text), "")
        slug == stem(FileName(file.path))
        document(display_categories, title_line) ==
            Returned([path |-> file.path,
                      categories |-> display_categories,
                      category_keys |-> category_keys_of(display_categories),
                      slug |-> slug,
                      slug_key |-> slug_key_of(slug),
                      title |-> title_line,
                      body_lines |-> Tail(lines)])
    IN  IF ReadFailure(file.status) = "FileNotFoundError"
        THEN Raised("PaperParseError", "Missing document")
        ELSE IF ReadFailure(file.status) # "none"
        THEN Raised(ReadFailure(file.status), "read_text")
        ELSE IF strip(file.text) = ""
        THEN Raised("PaperParseError", "Document is empty")
        ELSE IF strip(Tail(lstrip(lines[1]))) = ""
        THEN Raised("PaperParseError", "Title line is empty")
        ELSE document(display_categories_of(ParentParts(file.path)),
                      strip(Tail(lstrip(lines[1]))))

\* A parser that takes the title from the first line that is not blank.
RECURSIVE drop_blank_lines(_)
drop_blank_lines(lines) ==
    IF lines = <<>> \/ strip(Head(lines)) # "" THEN lines
    ELSE drop_blank_lines(Tail(lines))

parse_document_skipping_blank_lines(file) ==
    LET lines == drop_blank_lines(split_lines(normalise_newlines(file.text), ""))
        slug == stem(FileName(file.path))
        document(display_categories, title_line) ==
            Returned([path |-> file.path,
                      categories |-> display_categories,
                      category_keys |-> category_keys_of(display_categories),
                      slug |-> slug,
                      slug_key |-> slug_key_of(slug),
                      title |-> title_line,
                      body_lines |-> Tail(lines)])
    IN  IF ReadFailure(file.status) = "FileNotFoundError"
        THEN Raised("PaperParseError", "Missing document")
        ELSE IF ReadFailure(file.status) # "none"
        THEN Raised(ReadFailure(file.status), "read_text")
        ELSE IF strip(file.text) = ""
        THEN Raised("PaperParseError", "Document is empty")
        ELSE IF ~StartsWith(lstrip(lines[1]), "#")
        THEN Raised("PaperParseError", "Document must begin with a title line")
        ELSE IF strip(Tail(lstrip(lines[1]))) = ""
        THEN Raised("PaperParseError", "Title line is empty")
        ELSE document(display_categories_of(ParentParts(file.path)),
                      strip(Tail(lstrip(lines[1]))))

parse_document(file) ==
    LET lines == split_lines(normalise_newlines(file.text), "")
        slug == stem(FileName(file.path))
        document(display_categories, title_line) ==
            Returned([path |-> file.path,
                      categories |-> display_categories,
                      category_keys |-> category_keys_of(display_categories),
                      slug |-> slug,
                      slug_key |-> slug_key_of(slug),
                      title |-> title_line,
                      body_lines |-> Tail(lines)])
    IN  IF ReadFailure(file.status) = "FileNotFoundError"
        THEN Raised("PaperParseError", "Missing document")
        ELSE IF ReadFailure(file.status) # "none"
        THEN Raised(ReadFailure(file.status), "read_text")
        ELSE IF strip(file.text) = ""
        THEN Raised("PaperParseError", "Document is empty")
        ELSE IF ~StartsWith(lstrip(lines[1]), "#")
        THEN Raised("PaperParseError", "Document must begin with a title line")
        ELSE IF strip(Tail(lstrip(lines[1]))) = ""
        THEN Raised("PaperParseError", "Title line is empty")
        ELSE document(display_categories_of(ParentParts(file.path)),
                      strip(Tail(lstrip(lines[1]))))

FileAt(root, path) == CHOOSE f \in root : f.path = path

\* The for loop of discover_documents: the first exception ends it.
RECURSIVE parse_each(_, _, _)
parse_each(root, paths, documents) ==
    LET continued(parsed) ==
            IF parsed.raised # "none" THEN parsed
            ELSE parse_each(root, Tail(paths), Append(documents, parsed.value))
    IN  IF paths = <<>> THEN Returned(documents)
        ELSE continued(parse_document(FileAt(root, Head(paths))))

discover_documents(root) ==
    LET checked(parsed) ==
            IF parsed.raised = "none" /\ parsed.value = <<>>
            THEN Raised("PaperParseError", "No .paper documents found")
            ELSE parsed
    IN  checked(parse_each(root, list_document_paths(root), <<>>))

-----------------------------------------------------------------------------
(* tools/render_starlight.py: categories.                                   *)
(* A JSON value of the override file is held with its type, so that the     *)
(* isinstance tests of build_category_infos can be made.                    *)

StrValue(s) == [type |-> "str", str |-> s, int |-> 0]
IntValue(n) == [type |-> "int", str |-> "", int |-> n]
NoValue == [type |-> "none", str |-> "", int |-> 0]

\* str(n) for an int
RECURSIVE digits_of(_)
digits_of(n) ==
    IF n < 10 THEN At(DigitChars, n + 1)
    ELSE digits_of(n \div 10) \o At(DigitChars, (n % 10) + 1)

py_str(v) ==
    CASE v.type = "str" -> v.str
      [] v.type = "int" -> IF v.int < 0 THEN "-" \o digits_of(-v.int) ELSE digits_of(v.int)
      [] OTHER -> "None"

primary_category(doc) ==
    IF doc.categories # <<>> THEN doc.categories[1] ELSE "Miscellaneous"

CategoryInfo(raw_label, lathe_label, lathe_key, lathe_id, comment, order) ==
    [raw_label |-> raw_label, lathe_label |-> lathe_label, lathe_key |-> lathe_key,
     lathe_id |-> lathe_id, comment |-> comment, order |-> order]

\* The locals of build_category_infos before the loop.
NoCategories ==
    [infos |-> <<>>, existing_keys |-> {}, key_counters |-> EmptyDict,
     existing_ids |-> {}, id_counters |-> EmptyDict, order_counter |-> 0]

\* One namespace for both names: an identifier counts as issued once the key
\* of the same category had to be suffixed.
category_step_one_namespace(state, doc, overrides) ==
    LET category == primary_category(doc)
        override == DictGet(overrides, category, EmptyDict)
        lathe_label == py_str(DictGet(override, "lathe_label", StrValue(category)))
        lathe_key_override == DictGet(override, "lathe_key", NoValue)
        override_slug ==
            IF lathe_key_override.type = "str" /\ strip(lathe_key_override.str) # ""
            THEN normalise_component(lathe_key_override.str)
            ELSE ""
        base_slug == ensure_document_slug(
            FirstNonEmpty(override_slug, normalise_component(lathe_label),
                          normalise_component(category), "misc"))
        lathe_id_override == DictGet(override, "lathe_id", NoValue)
        base_id_source ==
            IF lathe_id_override.type = "str" /\ strip(lathe_id_override.str) # ""
            THEN strip(lathe_id_override.str)
            ELSE FirstNonEmpty(to_pascal_case(lathe_label), to_pascal_case(category), "", "")
        base_id == ensure_document_id(
            FirstNonEmpty(base_id_source, to_pascal_case(category), "Category", ""))
        comment == py_str(DictGet(override, "comment", StrValue(lathe_label)))
        order_value == DictGet(override, "order", NoValue)
        order == IF order_value.type = "int" THEN order_value.int ELSE state.order_counter
        added(key, id) ==
            [infos |-> Append(state.infos,
                              CategoryInfo(category, lathe_label, key.name, id.name,
                                           comment, order)),
             existing_keys |-> key.existing,
             key_counters |-> key.counters,
             existing_ids |-> id.existing,
             id_counters |-> id.counters,
             order_counter |-> state.order_counter + 1]
    IN  IF \E i \in 1..Len(state.infos) : state.infos[i].raw_label = category
        THEN state
        ELSE LET issued(key) == IF key.accepted >= 0 THEN state.existing_ids \cup {base_id}
                                ELSE state.existing_ids
                 with_key(key) == added(key, allocate_id(base_id, issued(key),
                                                         state.id_counters))
             IN  with_key(allocate_slug(base_slug, state.existing_keys, state.key_counters))

\* One iteration of the loop of build_category_infos over the documents.
category_step(state, doc, overrides) ==
    LET category == primary_category(doc)
        override == DictGet(overrides, category, EmptyDict)
        lathe_label == py_str(DictGet(override, "lathe_label", StrValue(category)))
        lathe_key_override == DictGet(override, "lathe_key", NoValue)
        override_slug ==
            IF lathe_key_override.type = "str" /\ strip(lathe_key_override.str) # ""
            THEN normalise_component(lathe_key_override.str)
            ELSE ""
        base_slug == ensure_document_slug(
            FirstNonEmpty(override_slug, normalise_component(lathe_label),
                          normalise_component(category), "misc"))
        lathe_id_override == DictGet(override, "lathe_id", NoValue)
        base_id_source ==
            IF lathe_id_override.type = "str" /\ strip(lathe_id_override.str) # ""
            THEN strip(lathe_id_override.str)
            ELSE FirstNonEmpty(to_pascal_case(lathe_label), to_pascal_case(category), "", "")
        base_id == ensure_document_id(
            FirstNonEmpty(base_id_source, to_pascal_case(category), "Category", ""))
        comment == py_str(DictGet(override, "comment", StrValue(lathe_label)))
        order_value == DictGet(override, "order", NoValue)
        order == IF order_value.type = "int" THEN order_value.int ELSE state.order_counter
        added(key, id) ==
            [infos |-> Append(state.infos,
                              CategoryInfo(category, lathe_label, key.name, id.name,
                                           comment, order)),
             existing_keys |-> key.existing,
             key_counters |-> key.counters,
             existing_ids |-> id.existing,
             id_counters |-> id.counters,
             order_counter |-> state.order_counter + 1]
    IN  IF \E i \in 1..Len(state.infos) : state.infos[i].raw_label = category
        THEN state
        ELSE added(allocate_slug(base_slug, state.existing_keys, state.key_counters),
                   allocate_id(base_id, state.existing_ids, state.id_counters))

RECURSIVE category_loop(_, _, _)
category_loop(state, documents, overrides) ==
    IF documents = <<>> THEN state
    ELSE category_loop(category_step(state, Head(documents), overrides),
                       Tail(documents), overrides)

\* A sort on info.order alone.
InfoLess_by_order(a, b) == a.order < b.order

\* The sort key (info.order, info.lathe_label.lower(), info.raw_label.lower())
InfoLess(a, b) ==
    \/ a.order < b.order
    \/ /\ a.order = b.order
       /\ \/ StrLess(lower(a.lathe_label), lower(b.lathe_label))
          \/ /\ lower(a.lathe_label) = lower(b.lathe_label)
             /\ StrLess(lower(a.raw_label), lower(b.raw_label))

\* sorted() is stable: an item goes before the first item that is greater.
RECURSIVE insert_info(_, _)
insert_info(sorted, info) ==
    IF sorted = <<>> THEN <<info>>
    ELSE IF InfoLess(info, Head(sorted)) THEN <<info>> \o sorted
    ELSE <<Head(sorted)>> \o insert_info(Tail(sorted), info)

RECURSIVE sorted_infos(_, _)
sorted_infos(infos, sorted) ==
    IF infos = <<>> THEN sorted
    ELSE sorted_infos(Tail(infos), insert_info(sorted, Head(infos)))

build_category_infos(documents, overrides) ==
    sorted_infos(category_loop(NoCategories, documents, overrides).infos, <<>>)

-----------------------------------------------------------------------------
(* Texts.  A rendered text is held as the sequence text.split("\n"), so     *)
(* "\n".join(lines) is the sequence of the lines itself.                    *)

\* text + "\n"
with_newline(text) == Append(text, "")

\* text.rstrip("\n")
RECURSIVE rstrip_newlines(_)
rstrip_newlines(text) ==
    IF Len(text) > 1 /\ text[Len(text)] = ""
    THEN rstrip_newlines(SubSeq(text, 1, Len(text) - 1))
    ELSE text

\* text.rstrip()
RECURSIVE rstrip_text(_)
rstrip_text(text) ==
    IF Len(text) > 1 /\ rstrip(text[Len(text)]) = ""
    THEN rstrip_text(SubSeq(text, 1, Len(text) - 1))
    ELSE SubSeq(text, 1, Len(text) - 1) \o <<rstrip(text[Len(text)])>>

\* text.splitlines(): a final line break opens no further line
splitlines(text) ==
    IF text[Len(text)] = "" THEN SubSeq(text, 1, Len(text) - 1) ELSE text

\* The pieces of a line between its carriage returns.
RECURSIVE split_returns(_, _)
split_returns(s, piece) ==
    IF s = "" THEN <<piece>>
    ELSE IF Head(s) = "\r" THEN <<piece>> \o split_returns(Tail(s), "")
    ELSE split_returns(Tail(s), piece \o Head(s))

\* Path.read_text(encoding="utf-8") of a stored text: text mode reads "\r\n"
\* and a lone "\r" as "\n", so a carriage return ends a line, and one at
\* the end of a line is part of that line's break.  (Path.write_text on a
\* POSIX system stores the text as given, which is what the file holds.)
RECURSIVE read_text(_)
read_text(text) ==
    IF text = <<>> THEN <<>>
    ELSE LET pieces(line) ==
                 IF \A i \in 1..Len(line) : At(line, i) # "\r" THEN <<line>>
                 ELSE split_returns(line, "")
             kept(parts) ==
                 IF Len(text) > 1 /\ Len(parts) > 1 /\ parts[Len(parts)] = ""
                 THEN SubSeq(parts, 1, Len(parts) - 1)
                 ELSE parts
         IN  kept(pieces(Head(text))) \o read_text(Tail(text))

\* The zero-width space U+200B, which str.strip does not remove, is written
\* as the character @.
FTL_PREFIX_MARKER == "@"

\* value.replace("\\", "\\\\").replace("\"", "\\\"")
RECURSIVE escape_quotes(_)
escape_quotes(s) ==
    IF s = "" THEN ""
    ELSE (IF At(s, 1) = "\\" THEN "\\\\"
          ELSE IF At(s, 1) = "\"" THEN "\\\""
          ELSE At(s, 1)) \o escape_quotes(From(s, 2))

yaml_quote(value) == "\"" \o escape_quotes(value) \o "\""

\* PaperDocument.category_label
RECURSIVE join_with(_, _)
join_with(parts, separator) ==
    IF parts = <<>> THEN ""
    ELSE IF Len(parts) = 1 THEN parts[1]
    ELSE parts[1] \o separator \o join_with(Tail(parts), separator)

category_label(doc) ==
    IF doc.categories = <<>> THEN "uncategorized" ELSE join_with(doc.categories, " / ")

\* Tuples of strings compare item by item; a proper prefix is smaller.
RECURSIVE TupleLess(_, _)
TupleLess(a, b) ==
    IF a = <<>> THEN b # <<>>
    ELSE IF b = <<>> THEN FALSE
    ELSE IF Head(a) = Head(b) THEN TupleLess(Tail(a), Tail(b))
    ELSE StrLess(Head(a), Head(b))

\* The sort key (doc.categories, doc.slug)
DocLess(a, b) ==
    \/ TupleLess(a.categories, b.categories)
    \/ a.categories = b.categories /\ StrLess(a.slug, b.slug)

RECURSIVE insert_document(_, _)
insert_document(sorted, doc) ==
    IF sorted = <<>> THEN <<doc>>
    ELSE IF DocLess(doc, Head(sorted)) THEN <<doc>> \o sorted
    ELSE <<Head(sorted)>> \o insert_document(Tail(sorted), doc)

RECURSIVE sorted_documents(_, _)
sorted_documents(documents, sorted) ==
    IF documents = <<>> THEN sorted
    ELSE sorted_documents(Tail(documents), insert_document(sorted, Head(documents)))

\* The body of a document as render_ftl emits it.
RECURSIVE without_trailing_blank_lines(_)
without_trailing_blank_lines(body_lines) ==
    IF body_lines # <<>> /\ strip(body_lines[Len(body_lines)]) = ""
    THEN without_trailing_blank_lines(SubSeq(body_lines, 1, Len(body_lines) - 1))
    ELSE body_lines

\* A variant that leaves bracket lines as they are.
formatted_line_plain(raw_line) == "    " \o raw_line

formatted_line(raw_line) ==
    "    " \o (IF StartsWith(raw_line, "[") THEN FTL_PREFIX_MARKER \o raw_line ELSE raw_line)

ftl_body(body_lines) ==
    LET kept == without_trailing_blank_lines(body_lines)
    IN  [i \in 1..Len(kept) |-> formatted_line(kept[i])]
            \o <<"    " \o FTL_PREFIX_MARKER, "    " \o FTL_PREFIX_MARKER>>

\* The loop of render_ftl; first holds while current_category is None.
RECURSIVE ftl_entries(_, _, _)
ftl_entries(docs, current_category, first) ==
    IF docs = <<>> THEN <<>>
    ELSE LET doc == Head(docs)
             header == IF first \/ doc.categories # current_category
                       THEN <<"", "# " \o category_label(doc)>>
                       ELSE <<>>
         IN  header
                 \o <<"", "# title: " \o doc.title, "# slug: " \o doc.slug,
                      fluent_key(doc) \o " =">>
                 \o ftl_body(doc.body_lines)
                 \o ftl_entries(Tail(docs), doc.categories, FALSE)

render_ftl(documents) ==
    <<"# Auto-generated by tools/render_ftl.py. Do not edit manually.",
      "# Source docs: docs/*.txt">>
        \o ftl_entries(sorted_documents(documents, <<>>), <<>>, TRUE)
        \o <<"">>

\* The category value render_documents_yaml writes for a document.
category_value(doc) ==
    LET primary == doc.categories[1]
        primary_id(primary_key) ==
            IF primary_key # "" THEN to_pascal_case(primary_key) ELSE to_pascal_case(primary)
    IN  FirstNonEmpty(primary_id(normalise_component(primary)), primary, "", "")

RECURSIVE documents_yaml_entries(_)
documents_yaml_entries(docs) ==
    IF docs = <<>> THEN <<>>
    ELSE LET doc == Head(docs)
         IN  <<"  - key: " \o yaml_quote(fluent_key(doc)),
               "    name: " \o yaml_quote(doc.title)>>
                 \o (IF doc.categories # <<>>
                     THEN <<"    categories:", "      - " \o yaml_quote(category_value(doc))>>
                     ELSE <<>>)
                 \o documents_yaml_entries(Tail(docs))

render_documents_yaml(documents) ==
    <<"# Auto-generated by tools/render_ftl.py. Do not edit manually.", "documents:">>
        \o documents_yaml_entries(sorted_documents(documents, <<>>))
        \o <<"">>

-----------------------------------------------------------------------------
(* tools/render_starlight.py: identifiers and renderers. *)

\* [part for part in key.split("-") if part]
RECURSIVE split_hyphens(_, _)
split_hyphens(s, part) ==
    IF s = "" THEN (IF part = "" THEN <<>> ELSE <<part>>)
    ELSE IF At(s, 1) = "-"
    THEN (IF part = "" THEN <<>> ELSE <<part>>) \o split_hyphens(From(s, 2), "")
    ELSE split_hyphens(From(s, 2), part \o At(s, 1))

\* [part for part in components if not part.isdigit()]
RECURSIVE without_digit_parts(_)
without_digit_parts(parts) ==
    IF parts = <<>> THEN <<>>
    ELSE (IF IsAllDigits(Head(parts)) THEN <<>> ELSE <<Head(parts)>>)
             \o without_digit_parts(Tail(parts))

entity_id_for(doc) ==
    LET prefix == "doc-text-printer-"
        without_prefix(key) ==
            IF StartsWith(key, prefix) THEN From(key, Len(prefix) + 1) ELSE key
        filtered_key(key, filtered) ==
            IF filtered # <<>> THEN join_with(filtered, "-") ELSE key
        pascal_suffix(key) ==
            to_pascal_case(filtered_key(key, without_digit_parts(split_hyphens(key, ""))))
    IN  "PrintedDocument" \o pascal_suffix(without_prefix(fluent_key(doc)))

recipe_id_for(entity_id) == entity_id \o "Recipe"

\* by_category.get(info.raw_label): the documents of a category, in the order
\* of the document list
RECURSIVE documents_of(_, _)
documents_of(documents, raw_label) ==
    IF documents = <<>> THEN <<>>
    ELSE (IF primary_category(Head(documents)) = raw_label THEN <<Head(documents)>>
          ELSE <<>>) \o documents_of(Tail(documents), raw_label)

\* sorted(docs, key=lambda doc: doc.title.casefold())
RECURSIVE insert_by_title(_, _)
insert_by_title(sorted, doc) ==
    IF sorted = <<>> THEN <<doc>>
    ELSE IF StrLess(lower(doc.title), lower(Head(sorted).title)) THEN <<doc>> \o sorted
    ELSE <<Head(sorted)>> \o insert_by_title(Tail(sorted), doc)

RECURSIVE sorted_by_title(_, _)
sorted_by_title(docs, sorted) ==
    IF docs = <<>> THEN sorted
    ELSE sorted_by_title(Tail(docs), insert_by_title(sorted, Head(docs)))

docs_sorted(documents, info) ==
    sorted_by_title(documents_of(documents, info.raw_label), <<>>)

StarlightHeader == "# Auto-generated by tools/render_starlight.py. Do not edit manually."

entity_lines(doc, hide_spawn_menu) ==
    <<"- type: entity",
      "  parent: PrintedDocument",
      "  id: " \o entity_id_for(doc),
      "  name: " \o doc.title>>
        \o (IF hide_spawn_menu THEN <<"  categories: [ HideSpawnMenu ]">> ELSE <<>>)
        \o <<"  components:",
             "    - type: Paper",
             "      content: " \o fluent_key(doc),
             "">>

RECURSIVE entities_of(_, _)
entities_of(docs, hide_spawn_menu) ==
    IF docs = <<>> THEN <<>>
    ELSE entity_lines(Head(docs), hide_spawn_menu) \o entities_of(Tail(docs), hide_spawn_menu)

RECURSIVE document_sections(_, _, _)
document_sections(documents, categories, hide_spawn_menu) ==
    IF categories = <<>> THEN <<>>
    ELSE LET info == Head(categories)
             section(docs) ==
                 IF docs = <<>> THEN <<>>
                 ELSE <<"", "# " \o info.comment, "">> \o entities_of(docs, hide_spawn_menu)
         IN  section(docs_sorted(documents, info))
                 \o document_sections(documents, Tail(categories), hide_spawn_menu)

render_starlight_documents(documents, categories, hide_spawn_menu) ==
    with_newline(rstrip_text(
        <<StarlightHeader>> \o document_sections(documents, categories, hide_spawn_menu)))

\* The materials mapping: name and amount pairs in insertion order.
RECURSIVE material_lines(_)
material_lines(materials) ==
    IF materials = <<>> THEN <<>>
    ELSE <<"    " \o Head(materials).name \o ": " \o py_str(IntValue(Head(materials).amount))>>
             \o material_lines(Tail(materials))

recipe_lines(doc, lathe_category_id, completetime, materials, apply_discount) ==
    LET recipe(entity_id) ==
            <<"- type: latheRecipe",
              "  id: " \o recipe_id_for(entity_id),
              "  result: " \o entity_id,
              "  categories:",
              "    - " \o lathe_category_id,
              "  completetime: " \o py_str(IntValue(completetime)),
              "  applyMaterialDiscount: " \o (IF apply_discount THEN "true" ELSE "false"),
              "  materials:">>
    IN  recipe(entity_id_for(doc)) \o material_lines(materials) \o <<"">>

RECURSIVE recipes_of(_, _, _, _, _)
recipes_of(docs, lathe_category_id, completetime, materials, apply_discount) ==
    IF docs = <<>> THEN <<>>
    ELSE recipe_lines(Head(docs), lathe_category_id, completetime, materials, apply_discount)
             \o recipes_of(Tail(docs), lathe_category_id, completetime, materials,
                           apply_discount)

RECURSIVE recipe_sections(_, _, _, _, _, _)
recipe_sections(documents, categories, recipe_categories, completetime, materials, apply_discount) ==
    IF categories = <<>> THEN <<>>
    ELSE LET info == Head(categories)
             lathe_category_id == DictGet(recipe_categories, info.raw_label, info.lathe_id)
             section(docs) ==
                 IF docs = <<>> THEN <<>>
                 ELSE <<"", "# " \o info.comment, "">>
                          \o recipes_of(docs, lathe_category_id, completetime, materials,
                                        apply_discount)
         IN  section(docs_sorted(documents, info))
                 \o recipe_sections(documents, Tail(categories), recipe_categories,
                                    completetime, materials, apply_discount)

render_starlight_recipes(documents, categories, recipe_categories, completetime, materials, apply_discount) ==
    with_newline(rstrip_text(
        <<StarlightHeader>>
            \o recipe_sections(documents, categories, recipe_categories, completetime,
                               materials, apply_discount)))

RECURSIVE pack_items(_)
pack_items(docs) ==
    IF docs = <<>> THEN <<>>
    ELSE <<"  - " \o recipe_id_for(entity_id_for(Head(docs)))>> \o pack_items(Tail(docs))

RECURSIVE pack_sections(_, _)
pack_sections(documents, categories) ==
    IF categories = <<>> THEN <<>>
    ELSE LET info == Head(categories)
             section(docs) ==
                 IF docs = <<>> THEN <<>>
                 ELSE <<"  # " \o info.comment>> \o pack_items(docs) \o <<"">>
         IN  section(docs_sorted(documents, info))
                 \o pack_sections(documents, Tail(categories))

render_recipe_pack(documents, categories, pack_id) ==
    with_newline(rstrip_text(
        <<StarlightHeader, "- type: latheRecipePack", "  id: " \o pack_id, "  recipes:">>
            \o pack_sections(documents, categories)))

render_lathe_categories(categories) ==
    <<StarlightHeader>>
        \o [i \in 1..Len(categories) |->
               "lathe-category-" \o categories[i].lathe_key \o " = "
                   \o categories[i].lathe_label]
        \o <<"">>

RECURSIVE category_prototype_lines(_)
category_prototype_lines(categories) ==
    IF categories = <<>> THEN <<>>
    ELSE <<"",
           "- type: latheCategory",
           "  id: " \o Head(categories).lathe_id,
           "  name: lathe-category-" \o Head(categories).lathe_key>>
             \o category_prototype_lines(Tail(categories))

render_lathe_category_prototypes(categories) ==
    <<StarlightHeader>> \o category_prototype_lines(categories) \o <<"">>

-----------------------------------------------------------------------------
(* tools/verify_bundle.py.                                                  *)
(* The file system is a dict from path to text.  yaml.safe_load is modelled *)
(* on block sequences of mappings, the layout every generated YAML file     *)
(* has: an item opens with "- " and its fields, lists and nested mappings   *)
(* follow at deeper indentation.  An absent field reads as "" (None).       *)

sorted_strings(names) ==
    LET RECURSIVE ascending(_)
        ascending(rest) ==
            IF rest = {} THEN <<>>
            ELSE LET first == CHOOSE a \in rest : \A b \in rest \ {a} : StrLess(a, b)
                 IN  <<first>> \o ascending(rest \ {first})
    IN  ascending(names)

\* ", ".join(sorted(names))
joined(names) == join_with(sorted_strings(names), ", ")

Items(sequence) == { sequence[i] : i \in 1..Len(sequence) }

\* FTL_ENTRY_RE.match(stripped): the key matched by ^([a-z0-9\-]+)\s*= or ""
RECURSIVE slug_run(_)
slug_run(s) == IF s # "" /\ IsSlugChar(Head(s)) THEN Head(s) \o slug_run(Tail(s)) ELSE ""

FTL_ENTRY_RE(stripped) ==
    LET key == slug_run(stripped)
    IN  IF key # "" /\ StartsWith(lstrip(From(stripped, Len(key) + 1)), "=")
        THEN key ELSE ""

RECURSIVE ftl_keys_of(_, _)
ftl_keys_of(lines, expected_prefix) ==
    IF lines = <<>> THEN {}
    ELSE LET stripped == strip(Head(lines))
             key == FTL_ENTRY_RE(stripped)
         IN  (IF stripped # "" /\ ~StartsWith(stripped, "#") /\ key # ""
                    /\ StartsWith(key, expected_prefix)
              THEN {key} ELSE {})
                 \cup ftl_keys_of(Tail(lines), expected_prefix)

\* A variant that takes every entry name, whatever its prefix.
_parse_ftl_keys_any_prefix(text, expected_prefix) == ftl_keys_of(splitlines(text), "")

_parse_ftl_keys(text, expected_prefix) == ftl_keys_of(splitlines(text), expected_prefix)

\* A double-quoted YAML scalar: \\ and \" are unescaped up to the closing quote.
RECURSIVE unquote(_)
unquote(s) ==
    IF s = "" \/ At(s, 1) = "\"" THEN ""
    ELSE IF At(s, 1) = "\\" /\ Len(s) > 1 THEN At(s, 2) \o unquote(From(s, 3))
    ELSE At(s, 1) \o unquote(From(s, 2))

\* A plain YAML scalar ends where a comment (" #") starts.
RECURSIVE comment_from(_, _)
comment_from(s, i) ==
    IF i >= Len(s) THEN Len(s) + 1
    ELSE IF SubSeq(s, i, i + 1) = " #" THEN i
    ELSE comment_from(s, i + 1)

plain_scalar(s) == SubSeq(s, 1, comment_from(s, 1) - 1)

yaml_scalar(s) ==
    IF StartsWith(s, "\"") THEN unquote(From(s, 2)) ELSE rstrip(plain_scalar(s))

\* The position of the ":" that makes a line a "key: value" pair, or 0.
RECURSIVE colon_from(_, _)
colon_from(s, i) ==
    IF i > Len(s) THEN 0
    ELSE IF At(s, i) = ":" /\ (i = Len(s) \/ At(s, i + 1) = " ") THEN i
    ELSE colon_from(s, i + 1)

colon_index(s) == IF StartsWith(s, "\"") \/ StartsWith(s, "[") THEN 0 ELSE colon_from(s, 1)

\* A flow sequence with one item, as in "[ HideSpawnMenu ]".
flow_items(s) ==
    LET inner == strip(SubSeq(s, 2, Len(s) - 1))
    IN  IF inner = "" THEN <<>> ELSE <<yaml_scalar(inner)>>

NoEntry == [scalars |-> EmptyDict, lists |-> EmptyDict, components |-> <<>>]

\* entry.get(field) on a scalar field and entry.get(field) or [] on a list
Field(entry, field) == DictGet(entry.scalars, field, "")
ListField(entry, field) == DictGet(entry.lists, field, <<>>)

\* A line "key: value" or "key:" taken apart; "key:" with no value opens a
\* list or a nested mapping.
Pair(text) ==
    LET parts(colon, value) ==
            [is_pair |-> colon > 0,
             key |-> SubSeq(text, 1, colon - 1),
             value |-> value,
             opens |-> colon > 0 /\ (value = "" \/ StartsWith(value, "#"))]
        split_at(colon) == parts(colon, strip(From(text, colon + 1)))
    IN  split_at(colon_index(text))

opened_key(pair) == IF pair.opens THEN pair.key ELSE ""

\* "key: value" read into an entry
with_pair(entry, pair) ==
    IF ~pair.is_pair \/ pair.opens THEN entry
    ELSE IF StartsWith(pair.value, "[")
    THEN [entry EXCEPT !.lists =
              DictSet(@, pair.key, flow_items(rstrip(plain_scalar(pair.value))))]
    ELSE [entry EXCEPT !.scalars = DictSet(@, pair.key, yaml_scalar(pair.value))]

\* One line of a block sequence whose items start at column base.
yaml_line(state, line, base) ==
    LET content == lstrip(line)
        indent == Len(line) - Len(content)
        entries == state.entries
        last == Len(entries)
        is_item == StartsWith(content, "- ")
        read(pair) ==
            IF content = "" \/ StartsWith(content, "#") \/ indent < base THEN state
            ELSE IF indent = base /\ is_item
            THEN [entries |-> Append(entries, with_pair(NoEntry, pair)),
                  open |-> opened_key(pair)]
            ELSE IF last = 0 THEN state
            ELSE IF is_item
            THEN IF pair.is_pair
                 THEN [state EXCEPT !.entries[last].components =
                           Append(@, with_pair(NoEntry, pair).scalars)]
                 ELSE [state EXCEPT !.entries[last].lists =
                           DictSet(@, state.open,
                                   Append(DictGet(@, state.open, <<>>),
                                          yaml_scalar(From(content, 3))))]
            ELSE IF ~pair.is_pair THEN state
            ELSE IF indent = base + 2
            THEN [entries |-> [entries EXCEPT ![last] = with_pair(@, pair)],
                  open |-> opened_key(pair)]
            ELSE IF state.open = "components" /\ entries[last].components # <<>>
            THEN [state EXCEPT !.entries[last].components[Len(entries[last].components)] =
                      DictSet(@, pair.key, yaml_scalar(pair.value))]
            ELSE state
    IN  read(Pair(IF is_item THEN From(content, 3) ELSE content))

RECURSIVE yaml_lines(_, _, _)
yaml_lines(state, lines, base) ==
    IF lines = <<>> THEN state.entries
    ELSE LET \* the test makes TLC compute each line's state before the next line
             continued(next) ==
                 IF Len(next.entries) >= Len(state.entries)
                 THEN yaml_lines(next, Tail(lines), base)
                 ELSE state.entries
         IN  continued(yaml_line(state, Head(lines), base))

\* yaml.safe_load of a file holding a list of mappings (None reads as [])
_read_yaml_sequence(text) == yaml_lines([entries |-> <<>>, open |-> ""], text, 0)

\* (yaml.safe_load(text) or {}).get("documents") or []
documents_entries(text) == yaml_lines([entries |-> <<>>, open |-> ""], text, 2)

_extract_documents(text) ==
    LET extracted(documents) ==
            LET keyed == { i \in 1..Len(documents) : Field(documents[i], "key") # "" }
            IN  [doc_keys |-> { Field(documents[i], "key") : i \in keyed },
                 categories |->
                     UNION { Items(ListField(documents[i], "categories")) : i \in keyed }]
    IN  extracted(documents_entries(text))

\* str(value) of a field inside a message: an absent field prints as None
shown(value) == IF value = "" THEN "None" ELSE value

\* The loop of verify_bundle over the entity prototypes.
entity_step(state, entry, doc_keys, prototypes_path) ==
    LET entity_id == Field(entry, "id")
        papers == SelectSeq(entry.components, LAMBDA comp : DictGet(comp, "type", "") = "Paper")
        content_key == DictGet(papers[1], "content", "")
        registered == [state EXCEPT !.ids = @ \cup {entity_id}]
    IN  IF Field(entry, "type") # "entity" THEN state
        ELSE IF entity_id = ""
        THEN [state EXCEPT !.errors =
                  Append(@, "Entity entry missing id in " \o prototypes_path)]
        ELSE IF entity_id \in state.ids
        THEN [state EXCEPT !.errors =
                  Append(@, "Duplicate entity id " \o entity_id \o " in " \o prototypes_path)]
        ELSE IF papers = <<>>
        THEN [registered EXCEPT !.errors =
                  Append(@, entity_id \o " missing Paper component in " \o prototypes_path)]
        ELSE IF content_key \notin doc_keys
        THEN [registered EXCEPT !.errors =
                  Append(@, entity_id \o " references unknown paperwork key '"
                                \o shown(content_key) \o "'")]
        ELSE registered

RECURSIVE entity_loop(_, _, _, _)
entity_loop(state, prototypes, doc_keys, prototypes_path) ==
    IF prototypes = <<>> THEN state
    ELSE entity_loop(entity_step(state, Head(prototypes), doc_keys, prototypes_path),
                     Tail(prototypes), doc_keys, prototypes_path)

\* The loop of verify_bundle over the recipes.
recipe_step(state, entry, entity_ids, recipes_path) ==
    LET recipe_id == Field(entry, "id")
        result == Field(entry, "result")
        registered == [state EXCEPT !.ids = @ \cup {recipe_id},
                                    !.category_ids = @ \cup Items(ListField(entry, "categories"))]
    IN  IF Field(entry, "type") # "latheRecipe" THEN state
        ELSE IF recipe_id = ""
        THEN [state EXCEPT !.errors = Append(@, "Recipe entry missing id in " \o recipes_path)]
        ELSE IF recipe_id \in state.ids
        THEN [state EXCEPT !.errors =
                  Append(@, "Duplicate recipe id " \o recipe_id \o " in " \o recipes_path)]
        ELSE IF result \notin entity_ids
        THEN [registered EXCEPT !.errors =
                  Append(@, recipe_id \o " references unknown entity '" \o shown(result) \o "'")]
        ELSE registered

RECURSIVE recipe_loop(_, _, _, _)
recipe_loop(state, recipes, entity_ids, recipes_path) ==
    IF recipes = <<>> THEN state
    ELSE recipe_loop(recipe_step(state, Head(recipes), entity_ids, recipes_path),
                     Tail(recipes), entity_ids, recipes_path)

\* The loops of verify_bundle over the recipe packs and their recipes.
RECURSIVE pack_recipe_errors(_, _, _)
pack_recipe_errors(pack_id, recipes, recipe_ids) ==
    IF recipes = <<>> THEN <<>>
    ELSE (IF Head(recipes) \notin recipe_ids
          THEN <<"Recipe pack " \o shown(pack_id) \o " references unknown recipe '"
                     \o Head(recipes) \o "'">>
          ELSE <<>>) \o pack_recipe_errors(pack_id, Tail(recipes), recipe_ids)

RECURSIVE pack_loop(_, _)
pack_loop(pack_entries, recipe_ids) ==
    IF pack_entries = <<>> THEN <<>>
    ELSE (IF Field(Head(pack_entries), "type") # "latheRecipePack" THEN <<>>
          ELSE pack_recipe_errors(Field(Head(pack_entries), "id"),
                                  ListField(Head(pack_entries), "recipes"), recipe_ids))
             \o pack_loop(Tail(pack_entries), recipe_ids)

\* The loop of verify_bundle over the category prototypes; names is the dict
\* lathe_category_ids, from category id to localization name.
category_prototype_step(state, entry, category_prototypes_path) ==
    LET category_id == Field(entry, "id")
        name == Field(entry, "name")
    IN  IF Field(entry, "type") # "latheCategory" THEN state
        ELSE IF category_id = ""
        THEN [state EXCEPT !.errors =
                  Append(@, "latheCategory entry missing id in " \o category_prototypes_path)]
        ELSE IF category_id \in DOMAIN state.names
        THEN [state EXCEPT !.errors = Append(@, "Duplicate latheCategory id " \o category_id)]
        ELSE IF name = ""
        THEN [state EXCEPT !.errors =
                  Append(@, "latheCategory " \o category_id \o " missing name in prototypes")]
        ELSE [state EXCEPT !.names = DictSet(@, category_id, name)]

RECURSIVE category_prototype_loop(_, _, _)
category_prototype_loop(state, category_prototypes, category_prototypes_path) ==
    IF category_prototypes = <<>> THEN state
    ELSE category_prototype_loop(
             category_prototype_step(state, Head(category_prototypes), category_prototypes_path),
             Tail(category_prototypes), category_prototypes_path)

\* One message naming the members of a set, unless the set is empty.
reported(names, message) == IF names = {} THEN <<>> ELSE <<message \o joined(names)>>

\* What verify_bundle reads and derives from the seven files.
BundleFacts(fs, args) ==
    LET facts(extracted, entities, recipes, categories) ==
            [doc_keys |-> extracted.doc_keys,
             doc_category_ids |-> extracted.categories,
             ftl_keys |-> _parse_ftl_keys(read_text(fs[args.ftl_path]), "doc-text-printer-"),
             entity_errors |-> entities.errors,
             recipe_errors |-> recipes.errors,
             recipe_ids |-> recipes.ids,
             recipe_category_ids |-> recipes.category_ids,
             pack_errors |-> pack_loop(_read_yaml_sequence(read_text(fs[args.pack_path])), recipes.ids),
             category_errors |-> categories.errors,
             lathe_category_ids |-> DOMAIN categories.names,
             lathe_category_names |->
                 { categories.names[id] : id \in DOMAIN categories.names },
             category_ftl_keys |->
                 _parse_ftl_keys(read_text(fs[args.category_ftl_path]), "lathe-category-")]
        with_entities(extracted, entities) ==
            facts(extracted, entities,
                  recipe_loop([errors |-> <<>>, ids |-> {}, category_ids |-> {}],
                              _read_yaml_sequence(read_text(fs[args.recipes_path])),
                              entities.ids, args.recipes_path),
                  category_prototype_loop(
                      [errors |-> <<>>, names |-> EmptyDict],
                      _read_yaml_sequence(read_text(fs[args.category_prototypes_path])),
                      args.category_prototypes_path))
        with_documents(extracted) ==
            with_entities(extracted,
                          entity_loop([errors |-> <<>>, ids |-> {}],
                                      _read_yaml_sequence(read_text(fs[args.prototypes_path])),
                                      extracted.doc_keys, args.prototypes_path))
    IN  with_documents(_extract_documents(read_text(fs[args.documents_path])))

\* "for cat in unused_category_ids" visits a set: iteration_order is the order
\* in which the interpreter happens to yield its members.
RECURSIVE unreferenced_errors(_, _)
unreferenced_errors(iteration_order, recipe_category_ids) ==
    IF iteration_order = <<>> THEN <<>>
    ELSE (IF Head(iteration_order) \notin recipe_category_ids
          THEN <<"latheCategory '" \o Head(iteration_order)
                     \o "' is not referenced by documents or recipes">>
          ELSE <<>>) \o unreferenced_errors(Tail(iteration_order), recipe_category_ids)

\* A variant that checks the category localization in one direction only.
bundle_errors_one_way(facts, args, iteration_order) ==
    (IF facts.doc_keys = {} THEN <<"No documents found in " \o args.documents_path>>
     ELSE <<>>)
        \o reported(facts.doc_keys \ facts.ftl_keys, "doc-printer.ftl missing entries for: ")
        \o facts.entity_errors
        \o facts.recipe_errors
        \o facts.pack_errors
        \o facts.category_errors
        \o reported(facts.doc_category_ids \ facts.lathe_category_ids,
                    "documents.yml references undefined lathe categories: ")
        \o reported(facts.recipe_category_ids \ facts.lathe_category_ids,
                    "lathe recipes reference undefined categories: ")
        \o reported(facts.lathe_category_names \ facts.category_ftl_keys,
                    "lathe-categories.ftl missing definitions for: ")
        \o unreferenced_errors(iteration_order, facts.recipe_category_ids)
        \o reported(facts.lathe_category_ids \ facts.recipe_category_ids,
                    "No recipes reference categories: ")

\* The messages of verify_bundle, in the order the checks append them.
bundle_errors(facts, args, iteration_order) ==
    (IF facts.doc_keys = {} THEN <<"No documents found in " \o args.documents_path>>
     ELSE <<>>)
        \o reported(facts.doc_keys \ facts.ftl_keys, "doc-printer.ftl missing entries for: ")
        \o facts.entity_errors
        \o facts.recipe_errors
        \o facts.pack_errors
        \o facts.category_errors
        \o reported(facts.doc_category_ids \ facts.lathe_category_ids,
                    "documents.yml references undefined lathe categories: ")
        \o reported(facts.recipe_category_ids \ facts.lathe_category_ids,
                    "lathe recipes reference undefined categories: ")
        \o reported(facts.lathe_category_names \ facts.category_ftl_keys,
                    "lathe-categories.ftl missing definitions for: ")
        \o reported(facts.category_ftl_keys \ facts.lathe_category_names,
                    "lathe-categories.ftl defines unused categories: ")
        \o unreferenced_errors(iteration_order, facts.recipe_category_ids)
        \o reported(facts.lathe_category_ids \ facts.recipe_category_ids,
                    "No recipes reference categories: ")

\* verify_bundle: the files are read, then every check appends its messages.
verify_bundle(fs, args, iteration_order) ==
    bundle_errors(BundleFacts(fs, args), args, iteration_order)

-----------------------------------------------------------------------------
(* The three commands run on one working copy: render_ftl.main and          *)
(* render_starlight.main write the generated files below dist/, and         *)
(* verify_bundle.main reads them back.  Each command is run with its        *)
(* default arguments; --category-config names the override file.            *)

ST_DEFAULT_MATERIALS == <<[name |-> "SheetPrinter", amount |-> 100]>>

RenderFtlArgs ==
    [output |-> "dist/doc-printer.ftl",
     documents_output |-> "dist/documents.yml"]

RenderStarlightArgs ==
    [prototypes_output |-> "dist/starlight/documents.yml",
     recipes_output |-> "dist/starlight/printer.yml",
     pack_output |-> "dist/starlight/pack_docs.yml",
     lathe_categories_output |-> "dist/starlight/lathe-categories.ftl",
     lathe_category_prototypes_output |-> "dist/starlight/categories.yml",
     lathe_category |-> EmptyDict,
     material |-> ST_DEFAULT_MATERIALS,
     recipe_time |-> 2,
     pack_id |-> "StarlightDocsAuto",
     show_in_spawn_menu |-> FALSE,
     apply_material_discount |-> FALSE]

VerifyArgs ==
    [documents_path |-> "dist/documents.yml",
     ftl_path |-> "dist/doc-printer.ftl",
     prototypes_path |-> "dist/starlight/documents.yml",
     recipes_path |-> "dist/starlight/printer.yml",
     pack_path |-> "dist/starlight/pack_docs.yml",
     category_prototypes_path |-> "dist/starlight/categories.yml",
     category_ftl_path |-> "dist/starlight/lathe-categories.ftl"]

BundlePaths == { VerifyArgs[name] : name \in DOMAIN VerifyArgs }

\* write_output: the file is left alone when the text read from it is the
\* new text.
write_output(content, destination, fs) ==
    LET new_text == with_newline(content)
    IN  IF destination \in DOMAIN fs /\ read_text(fs[destination]) = new_text
        THEN [fs |-> fs, changed |-> FALSE]
        ELSE [fs |-> DictSet(fs, destination, new_text), changed |-> TRUE]

\* The write_output calls of a command, in order; changes lists the
\* destinations that were written.
RECURSIVE write_outputs(_, _, _)
write_outputs(outputs, fs, changes) ==
    IF outputs = <<>> THEN [fs |-> fs, changes |-> changes]
    ELSE LET written == write_output(Head(outputs).content, Head(outputs).destination, fs)
         IN  write_outputs(Tail(outputs), written.fs,
                           IF written.changed
                           THEN Append(changes, Head(outputs).destination)
                           ELSE changes)

Output(content, destination) == [content |-> content, destination |-> destination]

\* How a command ends: parser.error exits with status 2, an exception that
\* main does not catch ends the interpreter with status 1.
ExitCode(raised) ==
    CASE raised = "none" -> 0
      [] raised = "PaperParseError" -> 2
      [] OTHER -> 1

\* A variant that writes whatever discovery handed back before looking at
\* how discovery ended.
render_ftl_main_partial(root, args, fs) ==
    LET written(discovered, outputs) ==
            [outcome |-> discovered, fs |-> outputs.fs, changes |-> outputs.changes,
             exit_code |-> ExitCode(discovered.raised)]
        rendered(discovered) ==
            written(discovered,
                    write_outputs(
                        <<Output(render_ftl(discovered.value), args.output),
                          Output(render_documents_yaml(discovered.value),
                                 args.documents_output)>>,
                        fs, <<>>))
    IN  rendered(discover_documents(root))

\* render_ftl.main
render_ftl_main(root, args, fs) ==
    LET written(discovered, outputs) ==
            [outcome |-> discovered, fs |-> outputs.fs, changes |-> outputs.changes,
             exit_code |-> 0]
        rendered(discovered) ==
            IF discovered.raised # "none"
            THEN [outcome |-> discovered, fs |-> fs, changes |-> <<>>,
                  exit_code |-> ExitCode(discovered.raised)]
            ELSE written(discovered,
                         write_outputs(
                             <<Output(render_ftl(discovered.value), args.output),
                               Output(render_documents_yaml(discovered.value),
                                      args.documents_output)>>,
                             fs, <<>>))
    IN  rendered(discover_documents(root))

\* The --category-config option: not given, or a file that holds a JSON
\* object of objects, another JSON value, or text that is not JSON.
ConfigFile(kind, entries) == [kind |-> kind, entries |-> entries]

NoConfig == ConfigFile("none", EmptyDict)

load_category_overrides(config) ==
    CASE config.kind = "none" -> Returned(EmptyDict)
      [] config.kind = "invalid_json" -> Raised("ValueError", "Invalid JSON")
      [] config.kind = "array" ->
             Raised("ValueError", "Category overrides must be a JSON object")
      [] OTHER -> Returned(config.entries)

\* render_starlight.main; parser.error ends the run with status 2.
render_starlight_main(root, config, args, fs) ==
    LET written(discovered, infos, outputs) ==
            [outcome |-> discovered, categories |-> infos, fs |-> outputs.fs,
             changes |-> outputs.changes, exit_code |-> 0]
        rendered(discovered, documents, infos) ==
            written(discovered, infos, write_outputs(
                <<Output(rstrip_newlines(render_starlight_documents(
                             documents, infos, ~args.show_in_spawn_menu)),
                         args.prototypes_output),
                  Output(rstrip_newlines(render_starlight_recipes(
                             documents, infos, args.lathe_category, args.recipe_time,
                             args.material, args.apply_material_discount)),
                         args.recipes_output),
                  Output(rstrip_newlines(render_recipe_pack(documents, infos, args.pack_id)),
                         args.pack_output),
                  Output(rstrip_newlines(render_lathe_categories(infos)),
                         args.lathe_categories_output),
                  Output(rstrip_newlines(render_lathe_category_prototypes(infos)),
                         args.lathe_category_prototypes_output)>>,
                fs, <<>>))
        loaded(discovered, overrides) ==
            IF overrides.raised # "none"
            THEN [outcome |-> discovered, categories |-> <<>>, fs |-> fs, changes |-> <<>>,
                  exit_code |-> 2]
            ELSE rendered(discovered, discovered.value,
                          build_category_infos(discovered.value, overrides.value))
        discovery(discovered) ==
            IF discovered.raised # "none"
            THEN [outcome |-> discovered, categories |-> <<>>, fs |-> fs, changes |-> <<>>,
                  exit_code |-> ExitCode(discovered.raised)]
            ELSE loaded(discovered, load_category_overrides(config))
    IN  discovery(discover_documents(root))

\* The orders in which a set can be iterated.
Orderings(S) ==
    { order \in [1..Cardinality(S) -> S] :
          \A i, j \in 1..Cardinality(S) : i # j => order[i] # order[j] }

-----------------------------------------------------------------------------
(* The allocator driven by an arbitrary caller: any sequence of calls that  *)
(* share one issued-set and one counter map per namespace.                  *)

SlugBases == {"alpha", ""}
IdBases == {"Alpha", ""}
InitialSlugNames == {"alpha", "alpha-b", "document", "-a"}
InitialIdNames == {"Alpha", "AlphaB", "Document"}

NoCall == [fn |-> "none", base |-> "", before |-> {}, counter_before |-> 0,
           name |-> "", first |-> -1, accepted |-> -1]

CallRecord(fn, base, before, counters, result) ==
    [fn |-> fn, base |-> base, before |-> before,
     counter_before |-> DictGet(counters, base, 0),
     name |-> result.name, first |-> result.first, accepted |-> result.accepted]

Pending == [raised |-> "pending", reason |-> "", value |-> <<>>]

DiscoverIdle == /\ tree = {}
                /\ outcome = Pending

PipelineIdle == /\ category_config = NoConfig
                /\ dist = EmptyDict
                /\ category_infos = <<>>
                /\ changed_files = <<>>
                /\ exit_code = -1
                /\ errors = Pending
                /\ edits = <<>>

SuffixIdle == /\ index = -1
              /\ suffix = ""
              /\ prev_suffix = ""
              /\ seen_suffixes = {}

AllocIdle == /\ existing_keys = {}
             /\ key_counters = EmptyDict
             /\ existing_ids = {}
             /\ id_counters = EmptyDict
             /\ initial_keys = {}
             /\ initial_ids = {}
             /\ returned_keys = <<>>
             /\ returned_ids = <<>>
             /\ last_call = NoCall
             /\ pc = "idle"
             /\ loop_counter = 0

Init ==
    /\ initial_keys \in SUBSET InitialSlugNames
    /\ initial_ids \in SUBSET InitialIdNames
    /\ existing_keys = initial_keys
    /\ existing_ids = initial_ids
    /\ key_counters = EmptyDict
    /\ id_counters = EmptyDict
    /\ returned_keys = <<>>
    /\ returned_ids = <<>>
    /\ last_call = NoCall
    /\ pc = "idle"
    /\ loop_counter = 0
    /\ SuffixIdle
    /\ DiscoverIdle
    /\ PipelineIdle

AllocateSlug(base) ==
    /\ Len(returned_keys) + Len(returned_ids) < MaxCalls
    /\ LET result == allocate_slug(base, existing_keys, key_counters)
       IN  /\ existing_keys' = result.existing
           /\ key_counters' = result.counters
           /\ returned_keys' = Append(returned_keys, result.name)
           /\ last_call' = CallRecord("allocate_slug", base, existing_keys,
                                      key_counters, result)
    /\ UNCHANGED <<existing_ids, id_counters, initial_keys, initial_ids, returned_ids,
                   pc, loop_counter>>
    /\ UNCHANGED suffixVars
    /\ UNCHANGED discoverVars
    /\ UNCHANGED pipelineVars

AllocateId(base) ==
    /\ Len(returned_keys) + Len(returned_ids) < MaxCalls
    /\ LET result == allocate_id(base, existing_ids, id_counters)
       IN  /\ existing_ids' = result.existing
           /\ id_counters' = result.counters
           /\ returned_ids' = Append(returned_ids, result.name)
           /\ last_call' = CallRecord("allocate_id", base, existing_ids,
                                      id_counters, result)
    /\ UNCHANGED <<existing_keys, key_counters, initial_keys, initial_ids, returned_keys,
                   pc, loop_counter>>
    /\ UNCHANGED suffixVars
    /\ UNCHANGED discoverVars
    /\ UNCHANGED pipelineVars

Next ==
    \/ \E base \in SlugBases : AllocateSlug(base)
    \/ \E base \in IdBases : AllocateId(base)

vars == <<allocVars, suffixVars, discoverVars, pipelineVars>>

Spec == Init /\ [][Next]_vars

-----------------------------------------------------------------------------
(* alphabetic_suffix called for 0, 1, 2, ... in turn. *)

InitSuffix ==
    /\ index = 0
    /\ suffix = alphabetic_suffix(0)
    /\ prev_suffix = ""
    /\ seen_suffixes = {}
    /\ AllocIdle
    /\ DiscoverIdle
    /\ PipelineIdle

NextIndex ==
    /\ index < MaxIndex
    /\ index' = index + 1
    /\ suffix' = alphabetic_suffix(index + 1)
    /\ prev_suffix' = suffix
    /\ seen_suffixes' = seen_suffixes \cup {suffix}
    /\ UNCHANGED allocVars
    /\ UNCHANGED discoverVars
    /\ UNCHANGED pipelineVars

NextSuffix == NextIndex

SpecSuffix == InitSuffix /\ [][NextSuffix]_vars

-----------------------------------------------------------------------------
(* discover_documents run on a document tree. *)

DiscoverPaths ==
    { <<"identity", "id-replacement.paper">>,
      <<"medical", "id-replacement.paper">>,
      <<"Alpha", "first.paper">>,
      <<"Alpha!!", "first.paper">>,
      <<"2024", "Reports", "summary.paper">>,
      <<"_partials", "footer.paper">>,
      <<"misc", "_draft.txt">>,
      <<"misc", "readme.md">>,
      <<"notes.txt">> }

ReadableTexts ==
    { "# Title\n[body]\n",
      "  #Indented\r\nline one\r\n\r\n",
      "",
      "\n\n",
      "No title\n",
      "#  \nbody\n",
      "\n# Late title\nbody\n" }

FileContents ==
    [status : {"readable"}, text : ReadableTexts]
        \cup [status : {"missing", "denied", "undecodable"}, text : {""}]

TreesOver(paths, contents) ==
    UNION { { { File(p, c[p].status, c[p].text) : p \in chosen } : c \in [chosen -> contents] }
            : chosen \in { q \in SUBSET paths : Cardinality(q) <= MaxFiles } }

InitDiscover ==
    /\ tree \in TreesOver(DiscoverPaths, FileContents)
    /\ outcome = Pending
    /\ AllocIdle
    /\ SuffixIdle
    /\ PipelineIdle

Discover ==
    /\ outcome = Pending
    /\ outcome' = discover_documents(tree)
    /\ UNCHANGED tree
    /\ UNCHANGED allocVars
    /\ UNCHANGED suffixVars
    /\ UNCHANGED pipelineVars

NextDiscover == Discover

SpecDiscover == InitDiscover /\ [][NextDiscover]_vars

-----------------------------------------------------------------------------
(* The generation commands and the verifier run, in any order and any       *)
(* number of times, on one document tree and one override file.             *)

PipelinePaths ==
    { <<"Identity", "id-replacement.paper">>,
      <<"01 Identity", "id-replacement.paper">>,
      <<"Security", "incident.paper">>,
      <<"Alpha", "first.paper">>,
      <<"Alpha!!", "second.paper">>,
      <<"notes.txt">>,
      <<"notes", "!.paper">> }

PipelineContents ==
    [status : {"readable"},
     text : {"# ID Replacement\n[body]\n", "No title\n"}]

\* Override files: none; one key and one id given to two categories; a
\* display label that is another category's name, with an explicit order;
\* an explicit order that is another category's first-encounter index; one
\* key given to two categories and one id given to two others; one
\* order and one display label, up to case, given to two categories; values
\* of the wrong type, which build_category_infos ignores.
PipelineOverrides ==
    { EmptyDict,
      ("Alpha" :> ("lathe_key" :> StrValue("Shared Key") @@ "lathe_id" :> StrValue("Shared")))
          @@ ("Alpha!!" :> ("lathe_key" :> StrValue("shared-key")
                                @@ "lathe_id" :> StrValue(" Shared "))),
      ("Identity" :> ("lathe_label" :> StrValue("Security") @@ "order" :> IntValue(5))),
      ("Identity" :> ("order" :> IntValue(1))),
      ("Identity" :> ("lathe_key" :> StrValue("shared")))
          @@ ("Security" :> ("lathe_key" :> StrValue("Shared")))
          @@ ("Alpha" :> ("lathe_id" :> StrValue("Shared")))
          @@ ("Miscellaneous" :> ("lathe_id" :> StrValue("Shared"))),
      ("Identity" :> ("lathe_label" :> StrValue("Same") @@ "order" :> IntValue(2)))
          @@ ("Alpha" :> ("lathe_label" :> StrValue("same") @@ "order" :> IntValue(2))),
      ("Miscellaneous" :> ("lathe_key" :> IntValue(7) @@ "lathe_id" :> StrValue("  ")
                               @@ "comment" :> StrValue("Loose papers")
                               @@ "order" :> IntValue(-1))) }

InitPipeline ==
    /\ tree \in TreesOver(PipelinePaths, PipelineContents)
    /\ outcome = Pending
    /\ category_config \in { ConfigFile("object", entries) : entries \in PipelineOverrides }
    /\ dist = EmptyDict
    /\ category_infos = <<>>
    /\ changed_files = <<>>
    /\ exit_code = -1
    /\ errors = Pending
    /\ edits = <<>>
    /\ AllocIdle
    /\ SuffixIdle

RenderFtl ==
    /\ \E run \in {render_ftl_main(tree, RenderFtlArgs, dist)} :
           /\ outcome' = run.outcome
           /\ dist' = run.fs
           /\ changed_files' = run.changes
           /\ exit_code' = run.exit_code
    /\ UNCHANGED <<tree, category_config, category_infos, errors, edits>>
    /\ UNCHANGED allocVars
    /\ UNCHANGED suffixVars

RenderStarlight ==
    /\ \E run \in {render_starlight_main(tree, category_config, RenderStarlightArgs, dist)} :
           /\ outcome' = run.outcome
           /\ category_infos' = run.categories
           /\ dist' = run.fs
           /\ changed_files' = run.changes
           /\ exit_code' = run.exit_code
    /\ UNCHANGED <<tree, category_config, errors, edits>>
    /\ UNCHANGED allocVars
    /\ UNCHANGED suffixVars

\* verify_bundle.main: read_text on a file that was never generated raises.
Verify ==
    /\ IF BundlePaths \subseteq DOMAIN dist
       THEN \E facts \in {BundleFacts(dist, VerifyArgs)} :
                \E iteration_order \in
                        Orderings(facts.lathe_category_ids \ facts.doc_category_ids) :
                    errors' = Returned(bundle_errors(facts, VerifyArgs, iteration_order))
       ELSE errors' = Raised("FileNotFoundError", "read_text")
    /\ UNCHANGED <<tree, outcome, category_config, dist, category_infos, changed_files, exit_code,
                   edits>>
    /\ UNCHANGED allocVars
    /\ UNCHANGED suffixVars

NextPipeline ==
    \/ RenderFtl
    \/ RenderStarlight
    \/ Verify

SpecPipeline == InitPipeline /\ [][NextPipeline]_vars

-----------------------------------------------------------------------------
(* The generation commands run again and again while an author edits the    *)
(* documents between runs; the --category-config file may be unusable.      *)

RerunPaths == { <<"Alpha", "first.paper">> }

\* A short document; one without a title line; one whose body has a plain
\* line, an indented bracket line, a bracket line and then an empty line, a
\* line of spaces and the final line break.
RerunContents ==
    [status : {"readable"},
     text : {"# First\n[body]\n", "No title\n",
             "# Form\nplain\n [indented]\n[tag]\n\n  \n"}]

\* No override file; a file that renames one category; a file whose label
\* holds a carriage return (the JSON escape \r); a JSON array; text that is
\* not JSON.
RerunConfigs ==
    { NoConfig,
      ConfigFile("object", "Alpha" :> ("lathe_label" :> StrValue("Forms"))),
      ConfigFile("object", "Alpha" :> ("lathe_label" :> StrValue("A\rB"))),
      ConfigFile("array", EmptyDict),
      ConfigFile("invalid_json", EmptyDict) }

InitRerun ==
    /\ tree \in TreesOver(RerunPaths, RerunContents)
    /\ outcome = Pending
    /\ category_config \in RerunConfigs
    /\ dist = EmptyDict
    /\ category_infos = <<>>
    /\ changed_files = <<>>
    /\ exit_code = -1
    /\ errors = Pending
    /\ edits = <<>>
    /\ AllocIdle
    /\ SuffixIdle

\* An author rewrites one file of the documents directory.
EditDocument ==
    /\ \E file \in tree : \E content \in RerunContents :
           /\ content.text # file.text
           /\ tree' = (tree \ {file}) \cup {File(file.path, content.status, content.text)}
    /\ UNCHANGED <<outcome>>
    /\ UNCHANGED pipelineVars
    /\ UNCHANGED allocVars
    /\ UNCHANGED suffixVars

NextRerun ==
    \/ RenderFtl
    \/ RenderStarlight
    \/ EditDocument

SpecRerun == InitRerun /\ [][NextRerun]_vars

-----------------------------------------------------------------------------
(* verify_bundle run on a bundle that was generated and then changed by     *)
(* hand: entries are taken out of the files and hand-written entries are    *)
(* put in.                                                                  *)

VerifyTrees ==
    { { File(<<"Document Forms", "first.paper">>, "readable", "# First\n[body]\n"),
        File(<<"second.paper">>, "readable", "# Second\n[body]\n") },
      { File(<<"second.paper">>, "readable", "# Second\n[body]\n") } }

\* Both generation commands run on an empty output directory.
generated_bundle(root) ==
    render_starlight_main(root, NoConfig, RenderStarlightArgs,
                          render_ftl_main(root, RenderFtlArgs, EmptyDict).fs)

FtlPaths == {VerifyArgs.ftl_path, VerifyArgs.category_ftl_path}

NestedListPaths == {VerifyArgs.documents_path, VerifyArgs.pack_path}

\* The lines of a file on which an entry starts: a message of a Fluent
\* file, an item of the list under "documents:" or "recipes:", an item of
\* the top-level list of a prototype file.
entry_lines(path, text) ==
    { i \in 1..Len(text) :
          IF path \in FtlPaths THEN FTL_ENTRY_RE(strip(text[i])) # ""
          ELSE IF path \in NestedListPaths THEN StartsWith(text[i], "  - ")
          ELSE StartsWith(text[i], "- ") }

\* The text without the entry that starts on line i: the lines up to the
\* next entry, or up to the final line break.
remove_entry(text, starts, i) ==
    LET later == { j \in starts : j > i }
        last == IF text[Len(text)] = "" THEN Len(text) - 1 ELSE Len(text)
        next == IF later = {} THEN last + 1
                ELSE CHOOSE j \in later : \A k \in later : j <= k
    IN  SubSeq(text, 1, i - 1) \o SubSeq(text, next, Len(text))

\* The text with an entry written at its end.
add_entry(text, entry) ==
    (IF text[Len(text)] = "" THEN SubSeq(text, 1, Len(text) - 1) ELSE text)
        \o entry \o <<"">>

\* Entries written by hand: a recipe that repeats an id of the generated
\* file and names an entity nobody defines and the hand-written category;
\* a recipe with an id of its own for that category; a category prototype
\* without a name, and one with a name; a document whose key lacks the
\* generated prefix and which names that category; messages for that
\* document and that category.
HandEntries ==
    (VerifyArgs.recipes_path :>
         << <<"- type: latheRecipe",
              "  id: PrintedDocumentSecondRecipe",
              "  result: PrintedDocumentGhost",
              "  categories:",
              "    - DocumentSpare">>,
            <<"- type: latheRecipe",
              "  id: PrintedDocumentSpareRecipe",
              "  result: PrintedDocumentSecond",
              "  categories:",
              "    - DocumentSpare">> >>)
    @@ (VerifyArgs.category_prototypes_path :>
         << <<"- type: latheCategory",
              "  id: DocumentSpare">>,
            <<"- type: latheCategory",
              "  id: DocumentSpare",
              "  name: lathe-category-document-spare">> >>)
    @@ (VerifyArgs.documents_path :>
         << <<"  - key: \"custom-form\"",
              "    name: \"Custom\"",
              "    categories:",
              "      - \"DocumentSpare\"">> >>)
    @@ (VerifyArgs.ftl_path :> << <<"custom-form = Custom">> >>)
    @@ (VerifyArgs.category_ftl_path :>
         << <<"lathe-category-document-spare = Spare">> >>)

Edit(op, path, entry) == [op |-> op, path |-> path, entry |-> entry]

InitVerify ==
    /\ tree \in VerifyTrees
    /\ \E run \in {generated_bundle(tree)} :
           /\ outcome = run.outcome
           /\ dist = run.fs
           /\ category_infos = run.categories
           /\ changed_files = run.changes
           /\ exit_code = run.exit_code
    /\ category_config = NoConfig
    /\ errors = Pending
    /\ edits = <<>>
    /\ AllocIdle
    /\ SuffixIdle

\* One entry is taken out of one file of the bundle.
RemoveEntry ==
    /\ Len(edits) < MaxEdits
    /\ \E path \in BundlePaths : \E starts \in {entry_lines(path, dist[path])} :
           \E i \in starts :
               /\ dist' = DictSet(dist, path, remove_entry(dist[path], starts, i))
               /\ edits' = Append(edits, Edit("remove", path, i))
    /\ errors' = Pending
    /\ UNCHANGED <<tree, outcome, category_config, category_infos, changed_files, exit_code>>
    /\ UNCHANGED allocVars
    /\ UNCHANGED suffixVars

\* One hand-written entry is put at the end of one file of the bundle.
AddEntry ==
    /\ Len(edits) < MaxEdits
    /\ \E path \in DOMAIN HandEntries : \E k \in 1..Len(HandEntries[path]) :
           /\ dist' = DictSet(dist, path, add_entry(dist[path], HandEntries[path][k]))
           /\ edits' = Append(edits, Edit("add", path, k))
    /\ errors' = Pending
    /\ UNCHANGED <<tree, outcome, category_config, category_infos, changed_files, exit_code>>
    /\ UNCHANGED allocVars
    /\ UNCHANGED suffixVars

NextVerify ==
    \/ RemoveEntry
    \/ AddEntry
    \/ Verify

SpecVerify == InitVerify /\ [][NextVerify]_vars

-----------------------------------------------------------------------------
(* The allocator statement by statement: a call returns at once when the    *)
(* base is free, and otherwise runs the collision loop one candidate at a   *)
(* time.                                                                    *)

LoopSlugNames == {"alpha", "alpha-a", "alpha-b", "document"}
LoopIdNames == {"Alpha", "AlphaA", "Document"}

InitLoop ==
    /\ initial_keys \in SUBSET LoopSlugNames
    /\ initial_ids \in SUBSET LoopIdNames
    /\ existing_keys = initial_keys
    /\ existing_ids = initial_ids
    /\ key_counters = EmptyDict
    /\ id_counters = EmptyDict
    /\ returned_keys = <<>>
    /\ returned_ids = <<>>
    /\ last_call = NoCall
    /\ pc = "idle"
    /\ loop_counter = 0
    /\ SuffixIdle
    /\ DiscoverIdle
    /\ PipelineIdle

\* allocate_slug up to the loop: lines 44-50.
BeginSlug(base) ==
    /\ pc = "idle"
    /\ Len(returned_keys) + Len(returned_ids) < MaxCalls
    /\ \E key \in {IF base = "" THEN "document" ELSE base} :
           IF key \notin existing_keys
           THEN /\ existing_keys' = existing_keys \cup {key}
                /\ key_counters' = DictSetDefault(key_counters, base, 0)
                /\ returned_keys' = Append(returned_keys, key)
                /\ last_call' = [fn |-> "allocate_slug", base |-> base,
                                 before |-> existing_keys,
                                 counter_before |-> DictGet(key_counters, base, 0),
                                 name |-> key, first |-> -1, accepted |-> -1]
                /\ UNCHANGED <<pc, loop_counter>>
           ELSE /\ pc' = "slug_loop"
                /\ loop_counter' = DictGet(key_counters, base, 0)
                /\ last_call' = [fn |-> "allocate_slug", base |-> base,
                                 before |-> existing_keys,
                                 counter_before |-> DictGet(key_counters, base, 0),
                                 name |-> "", first |-> DictGet(key_counters, base, 0),
                                 accepted |-> -1]
                /\ UNCHANGED <<existing_keys, key_counters, returned_keys>>
    /\ UNCHANGED <<existing_ids, id_counters, initial_keys, initial_ids, returned_ids>>
    /\ UNCHANGED suffixVars
    /\ UNCHANGED discoverVars
    /\ UNCHANGED pipelineVars

\* One iteration of the loop of allocate_slug: lines 51-58.
SlugLoopStep ==
    /\ pc = "slug_loop"
    /\ loop_counter < MaxCounter
    /\ loop_counter' = loop_counter + 1
    /\ \E candidate \in {slug_candidate(last_call.base, loop_counter)} :
           IF candidate \notin existing_keys
           THEN /\ existing_keys' = existing_keys \cup {candidate}
                /\ key_counters' = DictSet(key_counters, last_call.base, loop_counter + 1)
                /\ returned_keys' = Append(returned_keys, candidate)
                /\ last_call' = [last_call EXCEPT !.name = candidate, !.accepted = loop_counter]
                /\ pc' = "idle"
           ELSE UNCHANGED <<existing_keys, key_counters, returned_keys, last_call, pc>>
    /\ UNCHANGED <<existing_ids, id_counters, initial_keys, initial_ids, returned_ids>>
    /\ UNCHANGED suffixVars
    /\ UNCHANGED discoverVars
    /\ UNCHANGED pipelineVars

\* allocate_id up to the loop: lines 63-69.
BeginId(base) ==
    /\ pc = "idle"
    /\ Len(returned_keys) + Len(returned_ids) < MaxCalls
    /\ \E identifier \in {IF base = "" THEN "Document" ELSE base} :
           IF identifier \notin existing_ids
           THEN /\ existing_ids' = existing_ids \cup {identifier}
                /\ id_counters' = DictSetDefault(id_counters, base, 0)
                /\ returned_ids' = Append(returned_ids, identifier)
                /\ last_call' = [fn |-> "allocate_id", base |-> base,
                                 before |-> existing_ids,
                                 counter_before |-> DictGet(id_counters, base, 0),
                                 name |-> identifier, first |-> -1, accepted |-> -1]
                /\ UNCHANGED <<pc, loop_counter>>
           ELSE /\ pc' = "id_loop"
                /\ loop_counter' = DictGet(id_counters, base, 0)
                /\ last_call' = [fn |-> "allocate_id", base |-> base,
                                 before |-> existing_ids,
                                 counter_before |-> DictGet(id_counters, base, 0),
                                 name |-> "", first |-> DictGet(id_counters, base, 0),
                                 accepted |-> -1]
                /\ UNCHANGED <<existing_ids, id_counters, returned_ids>>
    /\ UNCHANGED <<existing_keys, key_counters, initial_keys, initial_ids, returned_keys>>
    /\ UNCHANGED suffixVars
    /\ UNCHANGED discoverVars
    /\ UNCHANGED pipelineVars

\* One iteration of the loop of allocate_id: lines 70-77.
IdLoopStep ==
    /\ pc = "id_loop"
    /\ loop_counter < MaxCounter
    /\ loop_counter' = loop_counter + 1
    /\ \E candidate \in {id_candidate(last_call.base, loop_counter)} :
           IF candidate \notin existing_ids
           THEN /\ existing_ids' = existing_ids \cup {candidate}
                /\ id_counters' = DictSet(id_counters, last_call.base, loop_counter + 1)
                /\ returned_ids' = Append(returned_ids, candidate)
                /\ last_call' = [last_call EXCEPT !.name = candidate, !.accepted = loop_counter]
                /\ pc' = "idle"
           ELSE UNCHANGED <<existing_ids, id_counters, returned_ids, last_call, pc>>
    /\ UNCHANGED <<existing_keys, key_counters, initial_keys, initial_ids, returned_keys>>
    /\ UNCHANGED suffixVars
    /\ UNCHANGED discoverVars
    /\ UNCHANGED pipelineVars

NextLoop ==
    \/ \E base \in SlugBases : BeginSlug(base)
    \/ SlugLoopStep
    \/ \E base \in IdBases : BeginId(base)
    \/ IdLoopStep

\* A running call keeps running: the loop is straight-line code of one thread.
SpecLoop ==
    /\ InitLoop
    /\ [][NextLoop]_vars
    /\ WF_vars(SlugLoopStep)
    /\ WF_vars(IdLoopStep)

-----------------------------------------------------------------------------
(* Claims about the identifier allocator. *)

NoDuplicates(seq) == \A i, j \in 1..Len(seq) : i # j => seq[i] # seq[j]

IssuedSetOf(fn) == IF fn = "allocate_slug" THEN existing_keys ELSE existing_ids
CountersOf(fn) == IF fn = "allocate_slug" THEN key_counters ELSE id_counters
CandidateOf(fn, base, counter) ==
    IF fn = "allocate_slug" THEN slug_candidate(base, counter) ELSE id_candidate(base, counter)

\* C1: every allocate_slug / allocate_id call returns a name that was not in
\* the issued-set before the call and is in it after the call; hence the names
\* returned over a call sequence are pairwise distinct and distinct from every
\* name the issued-set held initially.
C1_ReturnedNamesAreFresh ==
    /\ last_call.fn # "none" =>
          /\ last_call.name \notin last_call.before
          /\ last_call.name \in IssuedSetOf(last_call.fn)
    /\ NoDuplicates(returned_keys)
    /\ NoDuplicates(returned_ids)
    /\ \A i \in 1..Len(returned_keys) : returned_keys[i] \notin initial_keys
    /\ \A i \in 1..Len(returned_ids) : returned_ids[i] \notin initial_ids

\* C1 witness: a third allocate_slug call on a non-empty initial issued-set
\* has just resolved a collision by skipping a taken candidate.
C1_Witness ==
    /\ initial_keys # {}
    /\ Len(returned_keys) = 3
    /\ last_call.fn = "allocate_slug"
    /\ last_call.accepted > last_call.first

\* C5: on a collision the candidates are tried in increasing counter order
\* from the counter stored for the base, the first candidate absent from the
\* issued-set is accepted, and its counter plus one is stored; with "alpha"
\* issued, allocate_slug("alpha") returns "alpha-a" and then "alpha-b", and
\* with "Alpha" issued, allocate_id("Alpha") returns "AlphaA" and then "AlphaB".
C5_CounterPersistsAcrossCalls ==
    /\ (last_call.fn # "none" /\ last_call.accepted >= 0) =>
          /\ last_call.first = last_call.counter_before
          /\ last_call.accepted >= last_call.first
          /\ \A j \in last_call.first..(last_call.accepted - 1) :
                CandidateOf(last_call.fn, last_call.base, j) \in last_call.before
          /\ last_call.name = CandidateOf(last_call.fn, last_call.base, last_call.accepted)
          /\ last_call.name \notin last_call.before
          /\ DictGet(CountersOf(last_call.fn), last_call.base, -1) = last_call.accepted + 1
    /\ (last_call.fn = "allocate_slug" /\ last_call.base = "alpha") =>
          /\ (last_call.before = {"alpha"} /\ last_call.counter_before = 0)
                => last_call.name = "alpha-a"
          /\ (last_call.before = {"alpha", "alpha-a"} /\ last_call.counter_before = 1)
                => last_call.name = "alpha-b"
    /\ (last_call.fn = "allocate_id" /\ last_call.base = "Alpha") =>
          /\ (last_call.before = {"Alpha"} /\ last_call.counter_before = 0)
                => last_call.name = "AlphaA"
          /\ (last_call.before = {"Alpha", "AlphaA"} /\ last_call.counter_before = 1)
                => last_call.name = "AlphaB"

\* C5 witness: with only "alpha" issued at the start, the second colliding
\* allocate_slug("alpha") has continued from the stored counter 1.
C5_Witness ==
    /\ initial_keys = {"alpha"}
    /\ returned_keys = <<"alpha-a", "alpha-b">>
    /\ last_call.counter_before = 1
    /\ key_counters["alpha"] = 2

-----------------------------------------------------------------------------
(* Claims about alphabetic_suffix. *)

\* The value of a non-empty string over A..Z read as a bijective base-26
\* numeral (A = 1, ..., Z = 26): one more than the number of such strings
\* that precede it in length-then-alphabetical order.
RECURSIVE BijectiveValue(_)
BijectiveValue(s) ==
    IF s = "" THEN 0
    ELSE 26 * BijectiveValue(SubSeq(s, 1, Len(s) - 1)) + IndexIn(At(s, Len(s)), UpperChars)

ShortlexLess(a, b) == Len(a) < Len(b) \/ (Len(a) = Len(b) /\ StrLess(a, b))

\* C7: alphabetic_suffix is the bijective base-26 numbering: 0..25 give A..Z,
\* 26 AA, 27 AB, 51 AZ, 52 BA, 701 ZZ, 702 AAA; distinct arguments give
\* distinct results, and the results for 0, 1, 2, ... run through the
\* non-empty strings over A..Z in length-then-alphabetical order without
\* repeats or gaps.
C7_SuffixIsBijectiveBase26 ==
    index >= 0 =>
        /\ suffix # ""
        /\ \A i \in 1..Len(suffix) : IsUpper(At(suffix, i))
        /\ index <= 25 => suffix = At(UpperChars, index + 1)
        /\ index = 26 => suffix = "AA"
        /\ index = 27 => suffix = "AB"
        /\ index = 51 => suffix = "AZ"
        /\ index = 52 => suffix = "BA"
        /\ index = 701 => suffix = "ZZ"
        /\ index = 702 => suffix = "AAA"
        /\ suffix \notin seen_suffixes
        /\ Cardinality(seen_suffixes) = index
        /\ index > 0 => ShortlexLess(prev_suffix, suffix)
        /\ BijectiveValue(suffix) = index + 1

\* C7 witness: the first three-letter suffix has been produced.
C7_Witness == index = 702 /\ suffix = "AAA" /\ "ZZ" \in seen_suffixes

-----------------------------------------------------------------------------
(* Claims about discovery and parsing. *)

\* A file discovery must return: accepted extension, and no path segment
\* below the root (directory or file name) that starts with "_".
Eligible(f) ==
    /\ EndsWith(FileName(f.path), ".txt") \/ EndsWith(FileName(f.path), ".paper")
    /\ \A i \in 1..Len(f.path) : ~StartsWith(f.path[i], "_")

EligibleFiles == {f \in tree : Eligible(f)}

FirstLine(text) == split_lines(normalise_newlines(text), "")[1]

\* The three structural violations of a readable file.
BlankText(f) == strip(f.text) = ""
NoTitleMarker(f) == ~StartsWith(lstrip(FirstLine(f.text)), "#")
EmptyTitle(f) ==
    StartsWith(lstrip(FirstLine(f.text)), "#") /\ strip(Tail(lstrip(FirstLine(f.text)))) = ""

Malformed(f) == f.status = "readable" /\ (BlankText(f) \/ NoTitleMarker(f) \/ EmptyTitle(f))
WellFormed(f) == f.status = "readable" /\ ~Malformed(f)

\* read_text fails on the file with something other than a missing file.
ReadError(f) == f.status \in {"denied", "undecodable"}

\* The returned list holds exactly one document per eligible file, in
\* ascending order of path, each with a non-empty title and slug_key.
ReturnsTheEligibleFiles ==
    /\ outcome.raised = "none"
    /\ Len(outcome.value) = Cardinality(EligibleFiles)
    /\ {outcome.value[i].path : i \in 1..Len(outcome.value)} = {f.path : f \in EligibleFiles}
    /\ \A i, j \in 1..Len(outcome.value) :
          i < j => PathLess(outcome.value[i].path, outcome.value[j].path)
    /\ \A i \in 1..Len(outcome.value) :
          /\ outcome.value[i].title # ""
          /\ outcome.value[i].slug_key # ""

\* C8 as stated: for every tree with at least one eligible well-formed file,
\* discover_documents returns exactly one document per eligible file, in
\* ascending path order, each with a non-empty title and slug_key.
C8_Original ==
    (outcome # Pending /\ \E f \in EligibleFiles : WellFormed(f))
        => ReturnsTheEligibleFiles

\* C8 amended: for every tree with at least one eligible file, all of whose
\* eligible files are readable and well-formed, discover_documents returns
\* exactly one document per eligible file, in ascending order of path (the
\* segments compared in turn), each with a non-empty title and slug_key.
C8_ReturnsEligibleFilesWhenAllWellFormed ==
    (outcome # Pending /\ EligibleFiles # {} /\ \A f \in EligibleFiles : WellFormed(f))
        => ReturnsTheEligibleFiles

\* C8 witness: two well-formed documents whose directories are "Alpha" and
\* "Alpha!!" were returned, "Alpha" first.
C8_Witness ==
    /\ outcome.raised = "none"
    /\ Len(outcome.value) = 2
    /\ outcome.value[1].path = <<"Alpha", "first.paper">>
    /\ outcome.value[2].path = <<"Alpha!!", "first.paper">>

FormatViolationPresent ==
    EligibleFiles = {} \/ \E f \in EligibleFiles : Malformed(f)

FormatErrorKind == "PaperParseError"

\* The first eligible file, in path order, that parse_document rejects.
FirstRejected(f) ==
    /\ f \in EligibleFiles
    /\ ~WellFormed(f)
    /\ \A g \in EligibleFiles : PathLess(g.path, f.path) => WellFormed(g)

\* C10: a file that cannot be read (missing, permission denied, undecodable)
\* makes parsing fail with one error kind of the tool, DocumentIOError, that
\* is distinct from the kind raised for structural violations.
C10_UnreadableFileRaisesDistinctIOError ==
    outcome # Pending =>
        \A f \in EligibleFiles :
            (FirstRejected(f) /\ f.status # "readable") =>
                /\ outcome.raised # "none"
                /\ outcome.raised # FormatErrorKind
                /\ \A g \in EligibleFiles :
                      g.status # "readable" => parse_document(g).raised = outcome.raised

DistinctIn(docs, i, j) ==
    <<docs[i].categories, docs[i].slug>> # <<docs[j].categories, docs[j].slug>>

\* C4: any two documents of one discover_documents call whose (categories,
\* slug) pairs differ have different fluent_key values; identity/id-replacement
\* and medical/id-replacement give doc-text-printer-identity-id-replacement
\* and doc-text-printer-medical-id-replacement.
C4_DistinctDocumentsHaveDistinctKeys ==
    outcome.raised = "none" =>
        /\ \A i, j \in 1..Len(outcome.value) :
              DistinctIn(outcome.value, i, j)
                  => fluent_key(outcome.value[i]) # fluent_key(outcome.value[j])
        /\ \A i \in 1..Len(outcome.value) :
              /\ outcome.value[i].path = <<"identity", "id-replacement.paper">>
                    => fluent_key(outcome.value[i]) = "doc-text-printer-identity-id-replacement"
              /\ outcome.value[i].path = <<"medical", "id-replacement.paper">>
                    => fluent_key(outcome.value[i]) = "doc-text-printer-medical-id-replacement"

-----------------------------------------------------------------------------
(* Claims about the category resolver and the generated bundle              *)
(* (SpecPipeline).                                                          *)

\* render_starlight.main has run on the tree and built the categories.
CategoriesBuilt == outcome.raised = "none" /\ category_infos # <<>>

PrimaryLabels == { primary_category(outcome.value[i]) : i \in 1..Len(outcome.value) }

\* Two categories are given the same key or the same id by the override file.
OverridesShareNames ==
    \E a, b \in DOMAIN category_config.entries :
        /\ a # b
        /\ {a, b} \subseteq PrimaryLabels
        /\ "lathe_key" \in DOMAIN category_config.entries[a]
        /\ "lathe_key" \in DOMAIN category_config.entries[b]
        /\ normalise_component(py_str(category_config.entries[a]["lathe_key"]))
               = normalise_component(py_str(category_config.entries[b]["lathe_key"]))
        /\ "lathe_id" \in DOMAIN category_config.entries[a]
        /\ "lathe_id" \in DOMAIN category_config.entries[b]
        /\ strip(py_str(category_config.entries[a]["lathe_id"]))
               = strip(py_str(category_config.entries[b]["lathe_id"]))

\* C2: for every document list and every override mapping, also one that
\* gives two categories the same lathe_key or lathe_id, build_category_infos
\* returns exactly one CategoryInfo per distinct primary category label, and
\* no two of them share a lathe_key or a lathe_id.
C2_OneInfoPerCategoryWithUniqueNames ==
    CategoriesBuilt =>
        /\ { category_infos[i].raw_label : i \in 1..Len(category_infos) } = PrimaryLabels
        /\ \A i, j \in 1..Len(category_infos) :
              i # j =>
                  /\ category_infos[i].raw_label # category_infos[j].raw_label
                  /\ category_infos[i].lathe_key # category_infos[j].lathe_key
                  /\ category_infos[i].lathe_id # category_infos[j].lathe_id

C2_Witness ==
    /\ CategoriesBuilt
    /\ OverridesShareNames
    /\ Len(category_infos) = 2

\* The seven files exist and verify_bundle has returned its list for them.
BundleVerified ==
    /\ outcome.raised = "none"
    /\ BundlePaths \subseteq DOMAIN dist
    /\ errors.raised = "none"

\* The category values of the metadata index and the ids of the generated
\* category prototypes, as verify_bundle reads them.
IndexCategoryValues == _extract_documents(dist[VerifyArgs.documents_path]).categories
PrototypeCategoryIds == BundleFacts(dist, VerifyArgs).lathe_category_ids

\* C3: for any document tree accepted by discover_documents, the seven
\* artifacts rendered from it without overrides form a consistent bundle:
\* verify_bundle returns the empty list, and every category value written
\* for a document in the metadata index is the id of a generated category
\* prototype.
C3_GeneratedBundleVerifies ==
    (BundleVerified /\ category_config.entries = EmptyDict) =>
        /\ errors.value = <<>>
        /\ IndexCategoryValues \subseteq PrototypeCategoryIds

\* The categories seen before position i whose label gives the same slug and
\* the same PascalCase form as the label at position i.
EarlierTwins(i) ==
    { j \in 1..(i - 1) :
          /\ normalise_component(category_infos[j].raw_label)
                 = normalise_component(category_infos[i].raw_label)
          /\ to_pascal_case(category_infos[j].raw_label)
                 = to_pascal_case(category_infos[i].raw_label) }

HasLine(path, line) ==
    path \in DOMAIN dist /\ \E n \in 1..Len(dist[path]) : dist[path][n] = line

\* C6: without overrides, of two distinct primary categories whose labels
\* normalise to the same slug and the same PascalCase form the first seen
\* gets the key lathe-category-<slug> and the prototype id <Pascal>, the
\* second lathe-category-<slug>-a and <Pascal>A ("Alpha" then "Alpha!!":
\* lathe-category-alpha / Alpha, lathe-category-alpha-a / AlphaA); the
\* directory "01 Identity" yields lathe-category-identity and the id
\* Identity, which is the category id written into its recipes.
C6_CollidingCategoriesAreSuffixed ==
    (CategoriesBuilt /\ category_config.entries = EmptyDict) =>
        /\ \A i \in 1..Len(category_infos) :
              LET slug == normalise_component(category_infos[i].raw_label)
                  pascal == to_pascal_case(category_infos[i].raw_label)
              IN  /\ EarlierTwins(i) = {} =>
                        /\ category_infos[i].lathe_key = slug
                        /\ category_infos[i].lathe_id = pascal
                  /\ Cardinality(EarlierTwins(i)) = 1 =>
                        /\ category_infos[i].lathe_key = slug \o "-a"
                        /\ category_infos[i].lathe_id = pascal \o "A"
        /\ "Alpha" \in PrimaryLabels =>
              /\ HasLine(VerifyArgs.category_ftl_path, "lathe-category-alpha = Alpha")
              /\ HasLine(VerifyArgs.category_prototypes_path, "  id: Alpha")
        /\ {"Alpha", "Alpha!!"} \subseteq PrimaryLabels =>
              /\ HasLine(VerifyArgs.category_ftl_path, "lathe-category-alpha-a = Alpha!!")
              /\ HasLine(VerifyArgs.category_prototypes_path, "  id: AlphaA")
        /\ (\E f \in tree : f.path[1] = "01 Identity") =>
              /\ HasLine(VerifyArgs.category_ftl_path, "lathe-category-identity = Identity")
              /\ HasLine(VerifyArgs.category_prototypes_path, "  id: Identity")
              /\ HasLine(VerifyArgs.recipes_path, "    - Identity")

-----------------------------------------------------------------------------
(* Claims about repeated runs of the generation commands.                   *)

\* C11: a run of render_ftl.main or render_starlight.main that ends with a
\* non-zero exit status (a malformed document, an unusable override file)
\* has made no write_output call: every destination file is as it was
\* before the run and no destination is reported as changed.
C11_FailedRunWritesNothing ==
    [][(tree' = tree /\ exit_code' # 0) => (dist' = dist /\ changed_files' = <<>>)]_vars

\* A run failed on a malformed document while the files of an earlier,
\* successful run of both commands were in place.
C11_Witness ==
    /\ exit_code = 2
    /\ outcome.raised = "PaperParseError"
    /\ \E file \in tree : Malformed(file) /\ ~should_skip(file.path)
    /\ RenderFtlArgs.output \in DOMAIN dist
    /\ RenderStarlightArgs.prototypes_output \in DOMAIN dist

\* C12: a generation command run a second time on the documents, the
\* override file and the output directory its first, successful run left
\* behind writes nothing: every write_output call finds its destination
\* holding the text computed again and returns False.
C12_SecondRunWritesNothing ==
    [][/\ (RenderFtl /\ exit_code' = 0) =>
              render_ftl_main(tree', RenderFtlArgs, dist').changes = <<>>
       /\ (RenderStarlight /\ exit_code' = 0) =>
              render_starlight_main(tree', category_config', RenderStarlightArgs,
                                    dist').changes = <<>>]_vars

-----------------------------------------------------------------------------
(* Claims about verify_bundle on bundles changed by hand.  The entries of   *)
(* the files are read here as they stand, whether or not verify_bundle      *)
(* registers them.                                                          *)

Verified == errors.raised = "none"

Messages == Items(errors.value)

Contains(text, part) ==
    \E i \in 1..(Len(text) - Len(part) + 1) : SubSeq(text, i, i + Len(part) - 1) = part

EntriesOfType(path, type) ==
    SelectSeq(_read_yaml_sequence(read_text(dist[path])), LAMBDA entry : Field(entry, "type") = type)

RecipeFileEntries == EntriesOfType(VerifyArgs.recipes_path, "latheRecipe")

EntityFileIds ==
    LET entities == EntriesOfType(VerifyArgs.prototypes_path, "entity")
    IN  { Field(entities[i], "id") : i \in 1..Len(entities) } \ {""}

\* The category ids listed by the recipe entries of the recipes file.
ListedRecipeCategories ==
    LET recipes == RecipeFileEntries
    IN  UNION { Items(ListField(recipes[i], "categories")) : i \in 1..Len(recipes) }

UndefinedRecipeCategories == ListedRecipeCategories \ PrototypeCategoryIds

Edited(op, path) == \E n \in 1..Len(edits) : edits[n].op = op /\ edits[n].path = path

\* C13: verify_bundle returns the violations of every check: whatever else
\* it reports about a recipe entry (a repeated id, say), an entry that names
\* a result no entity prototype defines gets its "references unknown entity"
\* message, and a category it lists that no category prototype defines is
\* named by the "lathe recipes reference undefined categories" message.
C13_NoViolationIsSuppressed ==
    Verified =>
        \E recipes \in {RecipeFileEntries} :
            /\ \A i \in 1..Len(recipes) :
                   (Field(recipes[i], "id") # ""
                        /\ Field(recipes[i], "result") \notin EntityFileIds)
                       => (Field(recipes[i], "id") \o " references unknown entity '"
                               \o shown(Field(recipes[i], "result")) \o "'") \in Messages
            /\ \A category \in UndefinedRecipeCategories :
                   \E message \in Messages :
                       /\ StartsWith(message, "lathe recipes reference undefined categories: ")
                       /\ Contains(message, category)

\* C14: whenever a recipe entry of the bundle lists a category id that no
\* category prototype defines, verify_bundle returns the message "lathe
\* recipes reference undefined categories: ..." naming every such id,
\* whatever else the bundle holds.
C14_UndefinedRecipeCategoriesAreReported ==
    (Verified /\ UndefinedRecipeCategories # {}) =>
        ("lathe recipes reference undefined categories: "
             \o joined(UndefinedRecipeCategories)) \in Messages

\* C15: after the single change "one category-prototype entry that a recipe
\* references is taken out" of a generated bundle that verifies, every
\* message verify_bundle returns is an undefined-category message.
C15_OnlyUndefinedCategoryMessages ==
    (/\ Verified
     /\ Len(edits) = 1
     /\ edits[1].op = "remove"
     /\ edits[1].path = VerifyArgs.category_prototypes_path) =>
        \A message \in Messages :
            \/ StartsWith(message, "lathe recipes reference undefined categories: ")
            \/ StartsWith(message, "documents.yml references undefined lathe categories: ")

IndexDocumentKeys == _extract_documents(read_text(dist[VerifyArgs.documents_path])).doc_keys

\* The name of the message a line of a Fluent file starts: the text before
\* its first "=", or "" for a comment and for a line without "=".
EntryName(line) ==
    LET named(stripped, equals) ==
            IF equals = {} \/ StartsWith(stripped, "#") THEN ""
            ELSE rstrip(SubSeq(stripped, 1, (CHOOSE i \in equals : \A j \in equals : i <= j) - 1))
        read(stripped) ==
            named(stripped, { i \in 1..Len(stripped) : At(stripped, i) = "=" })
    IN  read(strip(line))

CatalogNames(path) ==
    { EntryName(read_text(dist[path])[n]) : n \in 1..Len(read_text(dist[path])) } \ {""}

\* The entry names verify_bundle recognises: lowercase letters, digits and
\* hyphens only, starting with the prefix of the file's keys.
RecognisedNames(path, prefix) ==
    { name \in CatalogNames(path) :
          /\ StartsWith(name, prefix)
          /\ \A i \in 1..Len(name) : IsSlugChar(At(name, i)) }

MissingMessage(prefix, names) ==
    IF names = {} THEN \A message \in Messages : ~StartsWith(message, prefix)
    ELSE (prefix \o joined(names)) \in Messages

\* C16 as stated: verify_bundle returns "doc-printer.ftl missing entries
\* for: ..." exactly when some document key of the metadata index is not
\* the name of an entry of the localization catalog, and the message names
\* exactly those keys.
C16_Original ==
    Verified =>
        MissingMessage("doc-printer.ftl missing entries for: ",
                       IndexDocumentKeys \ CatalogNames(VerifyArgs.ftl_path))

\* C16, amended: the same, where an entry of the catalog counts only if its
\* name is made of lowercase letters, digits and hyphens and starts with
\* "doc-text-printer-".
C16_MissingLocalizationIsReported ==
    Verified =>
        MissingMessage("doc-printer.ftl missing entries for: ",
                       IndexDocumentKeys
                           \ RecognisedNames(VerifyArgs.ftl_path, "doc-text-printer-"))

\* A bundle with one document key that has its catalog entry and one whose
\* entry was taken out.
C16_Witness ==
    /\ Verified
    /\ Edited("remove", VerifyArgs.ftl_path)
    /\ IndexDocumentKeys \cap RecognisedNames(VerifyArgs.ftl_path, "doc-text-printer-") # {}
    /\ IndexDocumentKeys \ CatalogNames(VerifyArgs.ftl_path) # {}
    /\ \E message \in Messages : StartsWith(message, "doc-printer.ftl missing entries for: ")

CategoryFileEntries == EntriesOfType(VerifyArgs.category_prototypes_path, "latheCategory")

\* The entries of the category prototype file that verify_bundle registers:
\* an id, a name, and no earlier entry with that id and a name.
RegisteredCategoryEntries ==
    LET entries == CategoryFileEntries
    IN  { i \in 1..Len(entries) :
              /\ Field(entries[i], "id") # ""
              /\ Field(entries[i], "name") # ""
              /\ \A j \in 1..(i - 1) :
                     Field(entries[j], "id") = Field(entries[i], "id")
                         => Field(entries[j], "name") = "" }

RegisteredCategoryNames ==
    { Field(CategoryFileEntries[i], "name") : i \in RegisteredCategoryEntries }

RegisteredCategoryIds ==
    { Field(CategoryFileEntries[i], "id") : i \in RegisteredCategoryEntries }

CategoryCatalogNames == RecognisedNames(VerifyArgs.category_ftl_path, "lathe-category-")

OrphanMessage(id) == "latheCategory '" \o id \o "' is not referenced by documents or recipes"

NoRecipeMessageNames(id) ==
    \E message \in Messages :
        /\ StartsWith(message, "No recipes reference categories: ")
        /\ Contains(message, id)

\* C18: for every registered category prototype id, verify_bundle returns
\* the orphan message if neither a document nor a recipe entry lists the id,
\* names the id in "No recipes reference categories: ..." if no recipe entry
\* lists it (a document may), and returns neither message for an id that
\* some recipe entry lists.
C18_UnreferencedCategoriesAreReported ==
    Verified =>
        \A id \in RegisteredCategoryIds :
            /\ (id \notin IndexCategoryValues /\ id \notin ListedRecipeCategories)
                   => OrphanMessage(id) \in Messages
            /\ id \notin ListedRecipeCategories => NoRecipeMessageNames(id)
            /\ id \in ListedRecipeCategories
                   => (OrphanMessage(id) \notin Messages /\ ~NoRecipeMessageNames(id))

-----------------------------------------------------------------------------
(* Claims about the texts the generation commands write.                    *)

\* The number of body lines up to the last one that is not blank.
KeptLines(body_lines) ==
    LET filled == { i \in 1..Len(body_lines) : strip(body_lines[i]) # "" }
    IN  IF filled = {} THEN 0 ELSE CHOOSE i \in filled : \A j \in filled : j <= i

\* The message of a document starts on line k of the catalog: the key line,
\* the kept body lines, indented by four spaces, a line that begins with
\* "[" behind the marker, then two marker lines and a line that is not one.
MessageAt(text, k, doc) ==
    LET kept == KeptLines(doc.body_lines)
    IN  /\ k + kept + 3 <= Len(text)
        /\ text[k] = fluent_key(doc) \o " ="
        /\ \A i \in 1..kept :
               text[k + i] = "    " \o (IF StartsWith(doc.body_lines[i], "[")
                                         THEN FTL_PREFIX_MARKER \o doc.body_lines[i]
                                         ELSE doc.body_lines[i])
        /\ text[k + kept + 1] = "    " \o FTL_PREFIX_MARKER
        /\ text[k + kept + 2] = "    " \o FTL_PREFIX_MARKER
        /\ text[k + kept + 3] = ""

\* The body lines of the file as parse_document takes them: the lines after
\* the title line.
BodyOf(file) == Tail(split_lines(normalise_newlines(file.text), ""))

C20_PrimaryCategoryOrUncategorized ==
    CategoriesBuilt =>
        \A n \in 1..Len(outcome.value) :
            \E label \in {IF outcome.value[n].categories = <<>> THEN "uncategorized"
                          ELSE outcome.value[n].categories[1]} :
                /\ primary_category(outcome.value[n]) = label
                /\ \E i \in 1..Len(category_infos) : category_infos[i].raw_label = label

-----------------------------------------------------------------------------
(* Claims about the order of the categories (SpecPipeline).                 *)

\* The number of distinct primary categories met before the first document
\* of the category: the value of order_counter when the category is added.
EncounterIndex(label) ==
    LET first == CHOOSE n \in 1..Len(outcome.value) :
                     /\ primary_category(outcome.value[n]) = label
                     /\ \A k \in 1..(n - 1) : primary_category(outcome.value[k]) # label
    IN  Cardinality({ primary_category(outcome.value[k]) : k \in 1..(first - 1) })

\* The override file gives the category an integer order.
HasExplicitOrder(label) ==
    /\ label \in DOMAIN category_config.entries
    /\ "order" \in DOMAIN category_config.entries[label]
    /\ category_config.entries[label]["order"].type = "int"

ExpectedOrder(label) ==
    IF HasExplicitOrder(label) THEN category_config.entries[label]["order"].int
    ELSE EncounterIndex(label)

\* (order, lower-cased display label, lower-cased raw label) of a is not
\* after that of b.
KeyNotAfter(a, b) ==
    \/ a.order < b.order
    \/ /\ a.order = b.order
       /\ StrLess(lower(a.lathe_label), lower(b.lathe_label))
    \/ /\ a.order = b.order
       /\ lower(a.lathe_label) = lower(b.lathe_label)
       /\ ~StrLess(lower(b.raw_label), lower(a.raw_label))

-----------------------------------------------------------------------------
(* Claims about the two namespaces of the category resolver                 *)
(* (SpecPipeline).                                                          *)

\* base_slug of build_category_infos for a category.
base_slug_of(category, overrides) ==
    LET override == DictGet(overrides, category, EmptyDict)
        lathe_label == py_str(DictGet(override, "lathe_label", StrValue(category)))
        lathe_key_override == DictGet(override, "lathe_key", NoValue)
        override_slug ==
            IF lathe_key_override.type = "str" /\ strip(lathe_key_override.str) # ""
            THEN normalise_component(lathe_key_override.str)
            ELSE ""
    IN  ensure_document_slug(
            FirstNonEmpty(override_slug, normalise_component(lathe_label),
                          normalise_component(category), "misc"))

\* base_id of build_category_infos for a category.
base_id_of(category, overrides) ==
    LET override == DictGet(overrides, category, EmptyDict)
        lathe_label == py_str(DictGet(override, "lathe_label", StrValue(category)))
        lathe_id_override == DictGet(override, "lathe_id", NoValue)
        base_id_source ==
            IF lathe_id_override.type = "str" /\ strip(lathe_id_override.str) # ""
            THEN strip(lathe_id_override.str)
            ELSE FirstNonEmpty(to_pascal_case(lathe_label), to_pascal_case(category), "", "")
    IN  ensure_document_id(
            FirstNonEmpty(base_id_source, to_pascal_case(category), "Category", ""))

\* The categories met before category_infos[i] in the loop over the documents.
MetBefore(i) ==
    { j \in 1..Len(category_infos) :
          EncounterIndex(category_infos[j].raw_label)
              < EncounterIndex(category_infos[i].raw_label) }

\* The base of category_infos[i] is a key, or an id, issued to a category
\* met before it.
SlugBaseTaken(i) ==
    base_slug_of(category_infos[i].raw_label, category_config.entries)
        \in { category_infos[j].lathe_key : j \in MetBefore(i) }

IdBaseTaken(i) ==
    base_id_of(category_infos[i].raw_label, category_config.entries)
        \in { category_infos[j].lathe_id : j \in MetBefore(i) }

IsSuffixedSlug(name, base) ==
    \E counter \in 0..Len(category_infos) : name = slug_candidate(base, counter)

IsSuffixedId(name, base) ==
    \E counter \in 0..Len(category_infos) : name = id_candidate(base, counter)

\* C22: keys and ids are allocated in separate namespaces: whether a
\* category's key is suffixed depends only on the keys issued before it, and
\* whether its id is suffixed only on the ids issued before it, so a category
\* whose key base is taken and whose id base is free gets a suffixed key and
\* the unsuffixed id, and the other way round.
C22_KeysAndIdsAreAllocatedSeparately ==
    CategoriesBuilt =>
        \A i \in 1..Len(category_infos) :
            /\ IF SlugBaseTaken(i)
               THEN IsSuffixedSlug(category_infos[i].lathe_key,
                        base_slug_of(category_infos[i].raw_label, category_config.entries))
               ELSE category_infos[i].lathe_key
                        = base_slug_of(category_infos[i].raw_label, category_config.entries)
            /\ IF IdBaseTaken(i)
               THEN IsSuffixedId(category_infos[i].lathe_id,
                        base_id_of(category_infos[i].raw_label, category_config.entries))
               ELSE category_infos[i].lathe_id
                        = base_id_of(category_infos[i].raw_label, category_config.entries)

\* Two categories share the key base and not the id base.
C22_Witness ==
    /\ CategoriesBuilt
    /\ \E i \in 1..Len(category_infos) :
           /\ SlugBaseTaken(i)
           /\ ~IdBaseTaken(i)
           /\ category_infos[i].lathe_key = "document-shared-a"
           /\ category_infos[i].lathe_id = "DocumentSecurity"

\* Two categories share the id base and not the key base.
C22_SymmetricCase ==
    /\ CategoriesBuilt
    /\ \E i \in 1..Len(category_infos) :
           /\ IdBaseTaken(i)
           /\ ~SlugBaseTaken(i)
           /\ category_infos[i].lathe_id = "DocumentSharedA"
           /\ category_infos[i].lathe_key = "document-miscellaneous"

-----------------------------------------------------------------------------
(* Claims about the allocator and an empty base name (Spec).                *)

\* The fixed placeholder of a namespace.
Placeholder(fn) == IF fn = "allocate_slug" THEN "document" ELSE "Document"

\* C23: for an empty base name the allocator uses the fixed placeholder as
\* its base: a call with an empty base returns "document" ("Document") when
\* that name is free, and otherwise the placeholder followed by a suffix
\* ("document-a", "DocumentA", ...), never a name built from the empty string.
C23_EmptyBaseFallsBackToPlaceholder ==
    (last_call.fn # "none" /\ last_call.base = "") =>
        IF Placeholder(last_call.fn) \notin last_call.before
        THEN last_call.name = Placeholder(last_call.fn)
        ELSE \E counter \in 0..(MaxCalls + Cardinality(last_call.before)) :
                 last_call.name = CandidateOf(last_call.fn, Placeholder(last_call.fn), counter)

-----------------------------------------------------------------------------
(* Claims about the fields of a parsed document (SpecDiscover).             *)

LinesOf(f) == split_lines(normalise_newlines(f.text), "")

\* The position of the first line of the file that is not blank.
TitleIndex(f) ==
    CHOOSE i \in 1..Len(LinesOf(f)) :
        /\ strip(LinesOf(f)[i]) # ""
        /\ \A k \in 1..(i - 1) : strip(LinesOf(f)[k]) = ""

\* The first line that is not blank is a title line: a marker and a title.
TitledAfterBlanks(f) ==
    /\ f.status = "readable"
    /\ strip(f.text) # ""
    /\ StartsWith(lstrip(LinesOf(f)[TitleIndex(f)]), "#")
    /\ strip(Tail(lstrip(LinesOf(f)[TitleIndex(f)]))) # ""

\* C24: the title of a parsed document is the first non-empty line of the
\* file without its one leading marker character, trimmed, and the lines
\* after it are the body; a file whose blank leading lines are followed by a
\* valid title line parses with that title.
C24_TitleIsFirstNonEmptyLine ==
    (/\ outcome.raised # "pending"
     /\ EligibleFiles # {}
     /\ \A f \in EligibleFiles : TitledAfterBlanks(f)) =>
        /\ outcome.raised = "none"
        /\ \A n \in 1..Len(outcome.value) :
               \E f \in EligibleFiles :
                   /\ f.path = outcome.value[n].path
                   /\ outcome.value[n].title
                          = strip(Tail(lstrip(LinesOf(f)[TitleIndex(f)])))
                   /\ outcome.value[n].body_lines
                          = SubSeq(LinesOf(f), TitleIndex(f) + 1, Len(LinesOf(f)))

\* C24 as the parser has it: the title of a parsed document is the first
\* line of its file, which is then its first non-empty line, without leading
\* whitespace and the one marker character, trimmed, and the lines after it
\* are the body; a file that begins with a blank line fails the run even when
\* a valid title line follows.
C24_TitleIsFirstLine ==
    /\ outcome.raised = "none" =>
           \A n \in 1..Len(outcome.value) :
               \E f \in EligibleFiles :
                   /\ f.path = outcome.value[n].path
                   /\ TitleIndex(f) = 1
                   /\ StartsWith(lstrip(LinesOf(f)[1]), "#")
                   /\ outcome.value[n].title = strip(Tail(lstrip(LinesOf(f)[1])))
                   /\ outcome.value[n].title # ""
                   /\ outcome.value[n].body_lines = Tail(LinesOf(f))
    /\ (/\ outcome.raised # "pending"
        /\ \E f \in EligibleFiles : TitledAfterBlanks(f) /\ TitleIndex(f) > 1) =>
           outcome.raised # "none"

\* A title line with leading whitespace and no space after the marker, and
\* in another run a file that begins with a blank line.
C24_Witness ==
    /\ outcome.raised = "none"
    /\ \E n \in 1..Len(outcome.value) :
           /\ outcome.value[n].title = "Indented"
           /\ outcome.value[n].body_lines = <<"line one", "", "">>

C24_RejectedWitness ==
    /\ outcome.raised = "PaperParseError"
    /\ \A f \in EligibleFiles : TitledAfterBlanks(f)
    /\ \E f \in EligibleFiles : TitleIndex(f) > 1

\* C25: for every parsed document, categories holds one cleaned label per
\* directory segment between the root and the file (empty exactly when the
\* file is at the root), and category_keys holds the slug of each label, so
\* both are as long as the directory path and position i of category_keys is
\* the slug of position i of categories.
C25_OneLabelAndOneKeyPerSegment ==
    outcome.raised = "none" =>
        \A n \in 1..Len(outcome.value) :
            /\ Len(outcome.value[n].categories) = Len(ParentParts(outcome.value[n].path))
            /\ Len(outcome.value[n].category_keys) = Len(ParentParts(outcome.value[n].path))
            /\ \A i \in 1..Len(ParentParts(outcome.value[n].path)) :
                   /\ outcome.value[n].categories[i]
                          = clean_category_label(ParentParts(outcome.value[n].path)[i])
                   /\ outcome.value[n].category_keys[i]
                          = normalise_component(outcome.value[n].categories[i])

-----------------------------------------------------------------------------
(* Claims about the termination of the allocator (SpecLoop).                *)

\* The counters of the candidates the running call has tried and rejected.
RejectedCounters == IF pc = "idle" THEN {} ELSE last_call.first..(loop_counter - 1)

\* While a loop runs its counter only grew, every candidate it rejected is an
\* issued name, and no two of the candidates are the same name; a call that
\* returned from the loop tried at most |issued-set| + 1 candidates.
TriesAreBounded ==
    /\ pc # "idle" =>
           /\ loop_counter >= last_call.first
           /\ \A c \in RejectedCounters :
                  CandidateOf(last_call.fn, last_call.base, c) \in last_call.before
           /\ \A c, d \in RejectedCounters \cup {loop_counter} :
                  c # d => CandidateOf(last_call.fn, last_call.base, c)
                               # CandidateOf(last_call.fn, last_call.base, d)
           /\ Cardinality(RejectedCounters) <= Cardinality(last_call.before)
    /\ (pc = "idle" /\ last_call.accepted >= 0) =>
           last_call.accepted - last_call.first + 1 <= Cardinality(last_call.before) + 1

\* C26: every allocate_slug and allocate_id call terminates: the collision
\* loop visits candidates with strictly increasing counters, all distinct,
\* so it returns after trying at most |issued-set| + 1 candidates.
C26_EveryCallTerminates ==
    /\ []TriesAreBounded
    /\ [][pc # "idle" /\ pc' # "idle" => loop_counter' = loop_counter + 1]_vars
    /\ (pc # "idle") ~> (pc = "idle")

\* A call that returned the third candidate it tried.
C26_Witness ==
    /\ pc = "idle"
    /\ last_call.fn = "allocate_slug"
    /\ last_call.accepted - last_call.first = 2
    /\ last_call.name = "alpha-c"

\* The loop returns the name the call returns as a whole.
LoopAgreesWithCall ==
    (pc = "idle" /\ last_call.fn = "allocate_slug") =>
        last_call.name
            = allocate_slug(last_call.base, last_call.before,
                            IF last_call.counter_before = 0 THEN EmptyDict
                            ELSE (last_call.base :> last_call.counter_before)).name

-----------------------------------------------------------------------------
(* Claims about the entity and recipe ids (SpecPipeline).                   *)

\* The id fields of the entries of a generated file, in file order.
IdsOfEntries(path, type) ==
    LET entries == EntriesOfType(path, type)
    IN  [i \in 1..Len(entries) |-> Field(entries[i], "id")]

\* C27: two documents of one discovery run with different localization keys
\* get different entity ids and different recipe ids, so the generated
\* entity and recipe files hold a duplicate id only if two documents share a
\* localization key.
C27_DistinctKeysGiveDistinctIds ==
    CategoriesBuilt =>
        /\ \A i, j \in 1..Len(outcome.value) :
               fluent_key(outcome.value[i]) # fluent_key(outcome.value[j]) =>
                   /\ entity_id_for(outcome.value[i]) # entity_id_for(outcome.value[j])
                   /\ recipe_id_for(entity_id_for(outcome.value[i]))
                          # recipe_id_for(entity_id_for(outcome.value[j]))
        /\ (\A i, j \in 1..Len(outcome.value) :
                i # j => fluent_key(outcome.value[i]) # fluent_key(outcome.value[j])) =>
               /\ NoDuplicates(IdsOfEntries(RenderStarlightArgs.prototypes_output, "entity"))
               /\ NoDuplicates(IdsOfEntries(RenderStarlightArgs.recipes_output, "latheRecipe"))

================================================================================
